---- MODULE Spec2Model ----
(***************************************************************************)
(* Verification model of teamide's database task engine:                   *)
(*   pkg/db/task/import.go  the scripted import task and its registry      *)
(*   pkg/db/service.go      Service.StartExport / StartImport / StartSync, *)
(*                          TableUpdateSql, DataListSql, TableData and     *)
(*                          sortName                                       *)
(*                                                                         *)
(* Threads are modelled at statement level: every Go statement that reads  *)
(* or writes shared state is one step, so the unsynchronised accesses of   *)
(* the code interleave exactly as its goroutines can interleave them.      *)
(***************************************************************************)
EXTENDS Integers, Sequences, FiniteSets, TLC

\* ------------------------------------------------------------------ bounds

\* Number of ImportTask objects the callers create.
NumTasks == 2
\* Largest requested row count ("_$importCount") of a strategy.
MaxCount == 2
\* Largest number of strategies in a StrategyDataList.
MaxStrategies == 2
\* The horizon of the logical clock read by time.Now().
MaxClock == 2

\* Number of Service tasks (StartExport / StartImport / StartSync calls).
NumServiceTasks == 2
\* Largest number of owners of an import or sync, and of tables of an export.
MaxOwners == 2

\* Largest number of columns and of indexes of an UpdateTableParam, and the
\* last call of the dialect that may fail.
MaxColumns == 2
MaxIndexes == 1
MaxFailAt == 2
\* Largest number of index entries over the single column a.
MaxPlainIndexes == 2

\* Longest name given to sortName, and largest size.
MaxNameLen == 6
MaxSize == 4

\* Largest number of requested columns and of result rows of a TableData
\* call, and the last call of the dialect or the worker that may fail.
MaxRequested == 2
MaxRows == 1
MaxDataFailAt == 3

\* ------------------------------------------------------- program constants

\* import.go:126  batchNumber = 10 when BatchNumber <= 0
DefaultBatchNumber == 10

\* ------------------------------------------------------------ value spaces

Tasks == 1 .. NumTasks
NoTask == 0
Keys == {"k1", "k2"}
Callers == {"c1", "c2"}
\* The goroutine started by `go task.Start()` for task t.
WorkerOf(t) == IF t = 1 THEN "w1" ELSE IF t = 2 THEN "w2" ELSE "w3"
Workers == {WorkerOf(t) : t \in Tasks}
Runners == Callers \cup Workers

\* How a strategy configures one column of ColumnList:
\*   absent   importData has no entry for column.Name
\*   literal  a value that is not a non-empty string
\*   expr     a non-empty string, run as a script
ColumnKinds == {"absent", "literal", "expr"}

\* The values of the Error field that the model tells apart.
NoError == ""
ErrConversion == "interface conversion: interface {} is int, not float64"
ErrScript == "script error"
ErrExec == "exec error"

VARIABLES
    cache,     \* ImportTaskCache: Keys -> task or NoTask
    cfg,       \* per task, the fields Start never writes: Key, ImportType,
               \* BatchNumber, and per strategy the column kinds
    counts,    \* per task and strategy, the "_$importCount" entry of importData
    task,      \* per task, the mutable ImportTask fields
    frame,     \* per thread, the call it is in and its locals
    db,        \* per task, the batches Service.Execs has inserted, in order
    clock,     \* the last reading of time.Now()
    cleanSince, \* history: a clean of, or a re-registration under, the task's key
                \* was requested since the task was registered
    cancelReq, \* history: StopImportTask found the task
    evals,     \* history: per task, the number of rows whose evaluation has begun
    svc,       \* per Service task (export, import, sync): its launcher, its
               \* worker goroutine, the pools and the files it owns
    ddl,       \* the call of Service.TableUpdateSql: its arguments, locals and results
    nm,        \* the call of sortName: its arguments, locals and result
    dat        \* the call of DataListSql or TableData: its arguments, locals
               \* and results

vars == <<cache, cfg, counts, task, frame, db, clock, cleanSince, cancelReq, evals,
          svc, ddl, nm, dat>>

\* ------------------------------------------------------------------ frames

IdleFrame ==
    [op |-> "idle", key |-> "", t |-> NoTask, pc |-> "idle", si |-> 0, i |-> 0,
     ci |-> 0, idx |-> 0, importCount |-> 0, dataCount |-> 0, batch |-> <<>>,
     scope |-> {}, panic |-> NoError]

\* The locals of a thread that enters ImportTask.Start on task t.
StartFrame(f, t) ==
    [f EXCEPT !.t = t, !.pc = "start", !.si = 0, !.i = 0, !.ci = 0, !.idx = 0,
              !.importCount = 0, !.dataCount = 0, !.batch = <<>>, !.scope = {},
              !.panic = NoError]

\* import.go:43-63  a freshly constructed ImportTask (Go zero values).
NewTask ==
    [DataCount |-> 0, ReadyDataCount |-> 0, SuccessCount |-> 0, ErrorCount |-> 0,
     IsEnd |-> FALSE, StartTime |-> 0, EndTime |-> 0, Error |-> NoError,
     UseTime |-> 0, IsStop |-> FALSE]

Max(a, b) == IF a >= b THEN a ELSE b

\* ------------------------------------------------------------------- inputs

\* An "_$importCount" entry as the caller supplies it: missing (nil) or a JSON
\* number (float64).  doStrategy replaces it by an int.
InputCounts ==
    {[kind |-> "nil", val |-> 0]}
        \cup {[kind |-> "float64", val |-> n] : n \in -1 .. MaxCount}

\* The column kinds of one strategy, for a ColumnList of one column.
InputColumns == {<<k>> : k \in ColumnKinds}

SeqsUpTo(S, n) == UNION {[1 .. m -> S] : m \in 0 .. n}


\* The strategies of a StrategyDataList: per strategy, its column kinds and
\* its "_$importCount" entry.
InputStrategies == {[columns |-> cs, count |-> n] : cs \in InputColumns, n \in InputCounts}

\* The configurations a caller gives an ImportTask with at most n strategies.
\* A type other than "strategy" makes Start do no work at all (import.go:80).
TaskConfigs(n) ==
    {[Key |-> k, ImportType |-> ty, BatchNumber |-> b, strategies |-> ss]
        : k \in Keys, ty \in {"strategy", "other"}, b \in 0 .. 2,
          ss \in SeqsUpTo(InputStrategies, n)}

\* ---------------------------------------------------------------- registry

\* Threads inside an access of the ImportTaskCache map (import.go:18,23,28,36,38).
MapReaders == {r \in Runners : frame[r].pc = "lookup"}
MapWriters == {r \in Runners : frame[r].pc \in {"register", "delete"}}
InMap == MapReaders \cup MapWriters

Spawned(t) == frame[WorkerOf(t)].pc \notin {"unspawned", "absent"}

\* StartImportTask has not been called for task t.
NotLaunched(t) ==
    /\ frame[WorkerOf(t)].pc = "unspawned"
    /\ \A c \in Callers : ~(frame[c].op = "StartImportTask" /\ frame[c].t = t)

\* A call that removes or replaces the entry under key k is in progress.
RemovalInFlight(k, t) ==
    \E c \in Callers :
        \/ frame[c].op = "CleanImportTask" /\ frame[c].key = k
        \/ frame[c].op = "StartImportTask" /\ frame[c].key = k /\ frame[c].t # t

TasksUnder(k) == {t \in Tasks : cfg[t].Key = k}

Unchanged_Task == UNCHANGED <<cfg, counts, task, db, clock, evals, svc, ddl, nm, dat>>

\* import.go:17  a caller enters StartImportTask(task).
Call_StartImportTask(c, t) ==
    /\ frame[c].pc = "idle"
    /\ NotLaunched(t)
    /\ frame' = [frame EXCEPT ![c] =
            [IdleFrame EXCEPT !.op = "StartImportTask", !.key = cfg[t].Key,
                              !.t = t, !.pc = "register"]]
    /\ cleanSince' = [u \in Tasks |->
            IF u # t /\ cfg[u].Key = cfg[t].Key THEN TRUE ELSE cleanSince[u]]
    /\ UNCHANGED <<cache, cancelReq>>
    /\ Unchanged_Task

\* The mutant of StartImportTask_Register: the map write is left out.
StartImportTask_NoRegister(c) ==
    /\ frame[c].op = "StartImportTask"
    /\ frame[c].pc = "register"
    /\ frame' = [frame EXCEPT ![c].pc = "go"]
    /\ cleanSince' = [cleanSince EXCEPT ![frame[c].t] =
            RemovalInFlight(frame[c].key, frame[c].t)]
    /\ UNCHANGED <<cache, cancelReq>>
    /\ Unchanged_Task

\* import.go:18  ImportTaskCache[task.Key] = task
StartImportTask_Register(c) ==
    /\ frame[c].op = "StartImportTask"
    /\ frame[c].pc = "register"
    /\ cache' = [cache EXCEPT ![frame[c].key] = frame[c].t]
    /\ frame' = [frame EXCEPT ![c].pc = "go"]
    /\ cleanSince' = [cleanSince EXCEPT ![frame[c].t] =
            RemovalInFlight(frame[c].key, frame[c].t)]
    /\ UNCHANGED cancelReq
    /\ Unchanged_Task

\* import.go:19-20  go task.Start(); return
StartImportTask_Go(c) ==
    /\ frame[c].op = "StartImportTask"
    /\ frame[c].pc = "go"
    /\ frame' = [frame EXCEPT
            ![c] = IdleFrame,
            ![WorkerOf(frame[c].t)] = StartFrame(@, frame[c].t)]
    /\ UNCHANGED <<cache, cleanSince, cancelReq>>
    /\ Unchanged_Task

\* import.go:22  a caller enters GetImportTask(taskKey).
Call_GetImportTask(c, k) ==
    /\ frame[c].pc = "idle"
    /\ frame' = [frame EXCEPT ![c] =
            [IdleFrame EXCEPT !.op = "GetImportTask", !.key = k, !.pc = "lookup"]]
    /\ UNCHANGED <<cache, cleanSince, cancelReq>>
    /\ Unchanged_Task

\* import.go:23-24  task := ImportTaskCache[taskKey]; return task
\* The value the call in progress returns to its caller.
GetImportTask_Result(c) == cache[frame[c].key]

GetImportTask_Lookup(c) ==
    /\ frame[c].op = "GetImportTask"
    /\ frame[c].pc = "lookup"
    /\ frame' = [frame EXCEPT ![c] = IdleFrame]
    /\ UNCHANGED <<cache, cleanSince, cancelReq>>
    /\ Unchanged_Task

\* import.go:27  a caller enters StopImportTask(taskKey).
Call_StopImportTask(c, k) ==
    /\ frame[c].pc = "idle"
    /\ frame' = [frame EXCEPT ![c] =
            [IdleFrame EXCEPT !.op = "StopImportTask", !.key = k, !.pc = "lookup"]]
    /\ UNCHANGED <<cache, cleanSince, cancelReq>>
    /\ Unchanged_Task

\* import.go:28-31  task := ImportTaskCache[taskKey]; if task != nil { task.Start() }
\* The call is task.Start(), not task.Stop(): the caller's thread runs the
\* whole of Start on the task it found.
StopImportTask_Lookup(c) ==
    /\ frame[c].op = "StopImportTask"
    /\ frame[c].pc = "lookup"
    /\ LET found == cache[frame[c].key] IN
        IF found = NoTask
        THEN /\ frame' = [frame EXCEPT ![c] = IdleFrame]
             /\ UNCHANGED cancelReq
        ELSE /\ frame' = [frame EXCEPT ![c] = StartFrame(@, found)]
             /\ cancelReq' = [cancelReq EXCEPT ![found] = TRUE]
    /\ UNCHANGED <<cache, cleanSince>>
    /\ Unchanged_Task

\* import.go:32  return task, once task.Start() has returned.
StopImportTask_Return(c) ==
    /\ frame[c].op = "StopImportTask"
    /\ frame[c].pc = "done"
    /\ frame' = [frame EXCEPT ![c] = IdleFrame]
    /\ UNCHANGED <<cache, cleanSince, cancelReq>>
    /\ Unchanged_Task

\* import.go:35  a caller enters CleanImportTask(taskKey).
Call_CleanImportTask(c, k) ==
    /\ frame[c].pc = "idle"
    /\ frame' = [frame EXCEPT ![c] =
            [IdleFrame EXCEPT !.op = "CleanImportTask", !.key = k, !.pc = "lookup"]]
    /\ cleanSince' = [u \in Tasks |->
            IF cfg[u].Key = k THEN TRUE ELSE cleanSince[u]]
    /\ UNCHANGED <<cache, cancelReq>>
    /\ Unchanged_Task

\* import.go:36-37  task := ImportTaskCache[taskKey]; if task != nil
CleanImportTask_Lookup(c) ==
    /\ frame[c].op = "CleanImportTask"
    /\ frame[c].pc = "lookup"
    /\ LET found == cache[frame[c].key] IN
        frame' = [frame EXCEPT ![c] =
            IF found = NoTask THEN IdleFrame
            ELSE [@ EXCEPT !.pc = "delete", !.t = found]]
    /\ UNCHANGED <<cache, cleanSince, cancelReq>>
    /\ Unchanged_Task

\* The mutant of CleanImportTask_Delete: the whole map is cleared.
CleanImportTask_DeleteAll(c) ==
    /\ frame[c].op = "CleanImportTask"
    /\ frame[c].pc = "delete"
    /\ cache' = [k \in Keys |-> NoTask]
    /\ frame' = [frame EXCEPT ![c] = IdleFrame]
    /\ UNCHANGED <<cleanSince, cancelReq>>
    /\ Unchanged_Task

\* import.go:38-40  delete(ImportTaskCache, taskKey); return task
CleanImportTask_Delete(c) ==
    /\ frame[c].op = "CleanImportTask"
    /\ frame[c].pc = "delete"
    /\ cache' = [cache EXCEPT ![frame[c].key] = NoTask]
    /\ frame' = [frame EXCEPT ![c] = IdleFrame]
    /\ UNCHANGED <<cleanSince, cancelReq>>
    /\ Unchanged_Task

\* import.go:65-67  ImportTask.Stop, called on the task by a holder of it.
ImportTask_Stop(t) ==
    /\ Spawned(t)
    /\ ~task[t].IsStop
    /\ task' = [task EXCEPT ![t].IsStop = TRUE]
    /\ UNCHANGED <<cache, cfg, counts, frame, db, clock, cleanSince, cancelReq, evals,
                   svc, ddl, nm, dat>>


\* ------------------------------------------------------- ImportTask.Start

\* time.Now(): the clock never runs backwards; it stands still at the horizon.
NowReadings == {clock, IF clock < MaxClock THEN clock + 1 ELSE clock}

\* The batch size with the default applied to negative numbers only.
BatchSize_NoDefault(t) ==
    IF cfg[t].BatchNumber < 0 THEN DefaultBatchNumber ELSE cfg[t].BatchNumber

\* import.go:124-127  the batch size doStrategyData uses.
BatchSize(t) ==
    IF cfg[t].BatchNumber <= 0 THEN DefaultBatchNumber ELSE cfg[t].BatchNumber

\* len(this_.StrategyDataList) and len(columnList)
NumStrategies(t) == Len(cfg[t].strategies)
NumColumns(t, s) == Len(cfg[t].strategies[s].columns)

\* doStrategyData returns nil to the loop of doStrategy (import.go:102-110),
\* dropping its locals, the pending dataList included.
NextStrategy(f) ==
    [f EXCEPT !.si = @ + 1, !.pc = "loop", !.i = 0, !.ci = 0, !.idx = 0,
              !.importCount = 0, !.batch = <<>>, !.scope = {}]

\* An error or a failed type assertion unwinds to the deferred function of
\* Start (import.go:82-84 panic(err), import.go:70).
Panic(f, e) ==
    [f EXCEPT !.pc = "recover", !.panic = e, !.i = 0, !.ci = 0, !.idx = 0,
              !.importCount = 0, !.dataCount = 0, !.batch = <<>>, !.scope = {}]

Unchanged_Registry == UNCHANGED <<cache, cfg, cleanSince, cancelReq, svc, ddl, nm, dat>>

\* import.go:69,80  this_.StartTime = time.Now(); if this_.ImportType == "strategy"
Start_Begin(r) ==
    /\ frame[r].pc = "start"
    /\ \E n \in NowReadings :
        /\ clock' = n
        /\ task' = [task EXCEPT ![frame[r].t].StartTime = n]
    /\ frame' = [frame EXCEPT ![r] =
            IF cfg[frame[r].t].ImportType = "strategy"
            THEN [@ EXCEPT !.pc = "plan", !.si = 1]
            ELSE [@ EXCEPT !.pc = "end_time"]]
    /\ UNCHANGED <<counts, db, evals>>
    /\ Unchanged_Registry

\* import.go:90-97  the first loop of doStrategy reads "_$importCount":
\* nil gives 0, a float64 is truncated, anything else fails the assertion
\* .(float64) with a runtime panic.  Negative counts become 0.
Plan_Read(r) ==
    /\ frame[r].pc = "plan"
    /\ LET f == frame[r]
           t == f.t
       IN frame' = [frame EXCEPT ![r] =
            IF f.si > NumStrategies(t)
            THEN [f EXCEPT !.pc = "loop", !.si = 1]
            ELSE IF counts[t][f.si].kind = "int"
            THEN Panic(f, ErrConversion)
            ELSE [f EXCEPT !.pc = "plan_write",
                           !.importCount = Max(counts[t][f.si].val, 0)]]
    /\ UNCHANGED <<counts, task, db, clock, evals>>
    /\ Unchanged_Registry

\* import.go:98-99  importData["_$importCount"] = importCount, and the load
\* of this_.DataCount for the += of line 99.  The field has no lock, so the
\* load and the store of the += are separate steps.
Plan_Write(r) ==
    /\ frame[r].pc = "plan_write"
    /\ LET f == frame[r]
           t == f.t
       IN /\ counts' = [counts EXCEPT ![t][f.si] =
                    [kind |-> "int", val |-> f.importCount]]
          /\ frame' = [frame EXCEPT ![r] =
                    [f EXCEPT !.pc = "plan_add", !.dataCount = task[t].DataCount]]
    /\ UNCHANGED <<task, db, clock, evals>>
    /\ Unchanged_Registry

\* import.go:99  this_.DataCount += importCount: the store of the sum.
Plan_Add(r) ==
    /\ frame[r].pc = "plan_add"
    /\ LET f == frame[r]
           t == f.t
       IN /\ task' = [task EXCEPT ![t].DataCount = f.dataCount + f.importCount]
          /\ frame' = [frame EXCEPT ![r] =
                    [f EXCEPT !.pc = "plan", !.si = @ + 1, !.importCount = 0,
                              !.dataCount = 0]]
    /\ UNCHANGED <<counts, db, clock, evals>>
    /\ Unchanged_Registry

\* import.go:102-111  the second loop of doStrategy: break when IsStop is
\* set, else call doStrategyData for the next strategy; return nil at the end.
Strategy_Loop(r) ==
    /\ frame[r].pc = "loop"
    /\ LET f == frame[r]
           t == f.t
       IN frame' = [frame EXCEPT ![r] =
            IF f.si > NumStrategies(t) \/ task[t].IsStop
            THEN [f EXCEPT !.pc = "end_time", !.si = 0]
            ELSE [f EXCEPT !.pc = "enter"]]
    /\ UNCHANGED <<counts, task, db, clock, evals>>
    /\ Unchanged_Registry

\* import.go:115-137  importCount := importData["_$importCount"].(int);
\* return when it is <= 0 or when IsStop is set; else dataList is empty and
\* vm := goja.New() is the scripting scope of all the rows of this strategy.
StrategyData_Enter(r) ==
    /\ frame[r].pc = "enter"
    /\ LET f == frame[r]
           t == f.t
           e == counts[t][f.si]
       IN frame' = [frame EXCEPT ![r] =
            IF e.kind # "int" THEN Panic(f, ErrConversion)
            ELSE IF e.val <= 0 \/ task[t].IsStop THEN NextStrategy(f)
            ELSE [f EXCEPT !.pc = "row", !.importCount = e.val, !.i = 0,
                           !.batch = <<>>, !.scope = {}]]
    /\ UNCHANGED <<counts, task, db, clock, evals>>
    /\ Unchanged_Registry

\* The row loop with the bound i <= importCount: one row too many.
StrategyData_RowOneMore(r) ==
    /\ frame[r].pc = "row"
    /\ LET f == frame[r]
           t == f.t
       IN IF f.i > f.importCount
          THEN /\ frame' = [frame EXCEPT ![r] = [f EXCEPT !.pc = "final_flush"]]
               /\ UNCHANGED evals
          ELSE /\ frame' = [frame EXCEPT ![r] =
                        [f EXCEPT !.pc = "col", !.idx = f.i, !.ci = 1]]
               /\ evals' = [evals EXCEPT ![t] = @ + 1]
    /\ UNCHANGED <<counts, task, db, clock>>
    /\ Unchanged_Registry

\* import.go:139-141  for i := 0; i < importCount; i++ { data := {};
\*                    vm.Set("_$index", i)
StrategyData_Row(r) ==
    /\ frame[r].pc = "row"
    /\ LET f == frame[r]
           t == f.t
       IN IF f.i >= f.importCount
          THEN /\ frame' = [frame EXCEPT ![r] = [f EXCEPT !.pc = "final_flush"]]
               /\ UNCHANGED evals
          ELSE /\ frame' = [frame EXCEPT ![r] =
                        [f EXCEPT !.pc = "col", !.idx = f.i, !.ci = 1]]
               /\ evals' = [evals EXCEPT ![t] = @ + 1]
    /\ UNCHANGED <<counts, task, db, clock>>
    /\ Unchanged_Registry

\* import.go:146-150  for _, column := range columnList { if this_.IsStop { return }
StrategyData_Column(r) ==
    /\ frame[r].pc = "col"
    /\ LET f == frame[r]
           t == f.t
       IN frame' = [frame EXCEPT ![r] =
            IF f.ci > NumColumns(t, f.si) THEN [f EXCEPT !.pc = "row_done", !.ci = 0]
            ELSE IF task[t].IsStop THEN NextStrategy(f)
            ELSE [f EXCEPT !.pc = "col_eval"]]
    /\ UNCHANGED <<counts, task, db, clock, evals>>
    /\ Unchanged_Registry

\* import.go:168  vm.Set(column.Name, value): the scope binds the column to
\* the value computed for row idx, replacing what it held for the column.
SetColumn(scope, ci, idx) ==
    {b \in scope : b.col # ci} \cup {[col |-> ci, row |-> idx]}

\* import.go:152-171  the value of one column: skipped when absent, taken as
\* it is when literal, and the result of vm.RunString for an expression,
\* which returns the script's error when it fails; the value is stored in
\* the row and bound in the scripting scope.
StrategyData_Eval(r) ==
    /\ frame[r].pc = "col_eval"
    /\ LET f == frame[r]
           t == f.t
           ok == IF cfg[t].strategies[f.si].columns[f.ci] = "absent"
                 THEN [f EXCEPT !.pc = "col", !.ci = @ + 1]
                 ELSE [f EXCEPT !.pc = "col", !.ci = @ + 1,
                                !.scope = SetColumn(f.scope, f.ci, f.idx)]
       IN \/ frame' = [frame EXCEPT ![r] = ok]
          \/ /\ cfg[t].strategies[f.si].columns[f.ci] = "expr"
             /\ frame' = [frame EXCEPT ![r] = Panic(f, ErrScript)]
    /\ UNCHANGED <<counts, task, db, clock, evals>>
    /\ Unchanged_Registry

\* import.go:173-175  this_.ReadyDataCount++; dataList = append(dataList, data);
\*                    if len(dataList) >= batchNumber
StrategyData_RowDone(r) ==
    /\ frame[r].pc = "row_done"
    /\ LET f == frame[r]
           t == f.t
           batch == Append(f.batch, [s |-> f.si, idx |-> f.idx])
       IN /\ task' = [task EXCEPT ![t].ReadyDataCount = @ + 1]
          /\ frame' = [frame EXCEPT ![r] =
                IF Len(batch) >= BatchSize(t)
                THEN [f EXCEPT !.pc = "flush_check", !.batch = batch, !.idx = 0]
                ELSE [f EXCEPT !.pc = "row", !.batch = batch, !.i = @ + 1, !.idx = 0]]
    /\ UNCHANGED <<counts, db, clock, evals>>
    /\ Unchanged_Registry

\* import.go:177-179  if this_.IsStop { return }
StrategyData_FlushCheck(r) ==
    /\ frame[r].pc = "flush_check"
    /\ LET f == frame[r]
       IN frame' = [frame EXCEPT ![r] =
            IF task[f.t].IsStop THEN NextStrategy(f) ELSE [f EXCEPT !.pc = "flush"]]
    /\ UNCHANGED <<counts, task, db, clock, evals>>
    /\ Unchanged_Registry

\* import.go:200-218  doImportData: nothing is sent for an empty list; else
\* the insert statements are generated and executed, and either may fail.
\* The result is <<inserted batches, error>>.
doImportData(t, batch) ==
    IF Len(batch) = 0 THEN {<<db[t], NoError>>}
    ELSE {<<Append(db[t], batch), NoError>>, <<db[t], ErrExec>>}

\* import.go:180-188  the flush of a full batch.
StrategyData_Flush(r) ==
    /\ frame[r].pc = "flush"
    /\ LET f == frame[r]
           t == f.t
       IN \E res \in doImportData(t, f.batch) :
            /\ db' = [db EXCEPT ![t] = res[1]]
            /\ IF res[2] # NoError
               THEN /\ task' = [task EXCEPT ![t].ErrorCount = @ + Len(f.batch)]
                    /\ frame' = [frame EXCEPT ![r] = Panic(f, res[2])]
               ELSE /\ task' = [task EXCEPT ![t].SuccessCount = @ + Len(f.batch)]
                    /\ frame' = [frame EXCEPT ![r] =
                            [f EXCEPT !.pc = "row", !.batch = <<>>, !.i = @ + 1]]
    /\ UNCHANGED <<counts, clock, evals>>
    /\ Unchanged_Registry

\* import.go:190-197  the flush of what is left when the rows are exhausted.
StrategyData_FinalFlush(r) ==
    /\ frame[r].pc = "final_flush"
    /\ LET f == frame[r]
           t == f.t
       IN \E res \in doImportData(t, f.batch) :
            /\ db' = [db EXCEPT ![t] = res[1]]
            /\ IF res[2] # NoError
               THEN /\ task' = [task EXCEPT ![t].ErrorCount = @ + Len(f.batch)]
                    /\ frame' = [frame EXCEPT ![r] = Panic(f, res[2])]
               ELSE /\ task' = [task EXCEPT ![t].SuccessCount = @ + Len(f.batch)]
                    /\ frame' = [frame EXCEPT ![r] = NextStrategy(f)]
    /\ UNCHANGED <<counts, clock, evals>>
    /\ Unchanged_Registry

\* The deferred function recovering the panic without recording it in Error.
Start_RecoverSilently(r) ==
    /\ frame[r].pc = "recover"
    /\ frame' = [frame EXCEPT ![r].pc = "end_time", ![r].si = 0]
    /\ UNCHANGED <<counts, task, db, clock, evals>>
    /\ Unchanged_Registry

\* import.go:71-74  if err := recover(); err != nil { this_.Error = fmt.Sprint(err) }
Start_Recover(r) ==
    /\ frame[r].pc = "recover"
    /\ task' = [task EXCEPT ![frame[r].t].Error = frame[r].panic]
    /\ frame' = [frame EXCEPT ![r].pc = "end_time", ![r].si = 0]
    /\ UNCHANGED <<counts, db, clock, evals>>
    /\ Unchanged_Registry

\* import.go:75  this_.EndTime = time.Now()
Start_EndTime(r) ==
    /\ frame[r].pc = "end_time"
    /\ \E n \in NowReadings :
        /\ clock' = n
        /\ task' = [task EXCEPT ![frame[r].t].EndTime = n]
    /\ frame' = [frame EXCEPT ![r].pc = "is_end"]
    /\ UNCHANGED <<counts, db, evals>>
    /\ Unchanged_Registry

\* The deferred function setting IsEnd only when nothing was recovered.
Start_IsEndUnlessPanic(r) ==
    /\ frame[r].pc = "is_end"
    /\ task' = [task EXCEPT ![frame[r].t].IsEnd = (frame[r].panic = NoError)]
    /\ frame' = [frame EXCEPT ![r].pc = "use_time"]
    /\ UNCHANGED <<counts, db, clock, evals>>
    /\ Unchanged_Registry

\* import.go:76  this_.IsEnd = true
Start_IsEnd(r) ==
    /\ frame[r].pc = "is_end"
    /\ task' = [task EXCEPT ![frame[r].t].IsEnd = TRUE]
    /\ frame' = [frame EXCEPT ![r].pc = "use_time"]
    /\ UNCHANGED <<counts, db, clock, evals>>
    /\ Unchanged_Registry

\* import.go:77  this_.UseTime = GetTimeTime(this_.EndTime) - GetTimeTime(this_.StartTime)
Start_UseTime(r) ==
    /\ frame[r].pc = "use_time"
    /\ LET t == frame[r].t
       IN task' = [task EXCEPT ![t].UseTime = task[t].EndTime - task[t].StartTime]
    /\ frame' = [frame EXCEPT ![r].pc = "done"]
    /\ UNCHANGED <<counts, db, clock, evals>>
    /\ Unchanged_Registry

\* One step of a thread that is inside ImportTask.Start.
Start_Step(r) ==
    \/ Start_Begin(r)
    \/ Plan_Read(r)
    \/ Plan_Write(r)
    \/ Plan_Add(r)
    \/ Strategy_Loop(r)
    \/ StrategyData_Enter(r)
    \/ StrategyData_Row(r)
    \/ StrategyData_Column(r)
    \/ StrategyData_Eval(r)
    \/ StrategyData_RowDone(r)
    \/ StrategyData_FlushCheck(r)
    \/ StrategyData_Flush(r)
    \/ StrategyData_FinalFlush(r)
    \/ Start_Recover(r)
    \/ Start_EndTime(r)
    \/ Start_IsEnd(r)
    \/ Start_UseTime(r)

\* One step of a caller inside a registry function.
Registry_Step(c) ==
    \/ StartImportTask_Register(c)
    \/ StartImportTask_Go(c)
    \/ GetImportTask_Lookup(c)
    \/ StopImportTask_Lookup(c)
    \/ StopImportTask_Return(c)
    \/ CleanImportTask_Lookup(c)
    \/ CleanImportTask_Delete(c)

\* ------------------------------------- Service.StartExport/Import/Sync

ServiceTasks == 1 .. NumServiceTasks

ErrExport == "export error"
ErrZip == "zip error"
ErrPool == "new db pool error"
ErrOwner == "owner error"
ErrTempDir == "temp dir error"
ErrTarget == "target database error"

\* A Service task before its Start... method is called.
\*   kind      export, import or sync
\*   launcher  where the calling thread is: idle, sleep, returned_task, returned_err
\*   pc        where the goroutine is
\*   err       the err variable the launcher and the goroutine share
\*   n         the owners (import, sync) or tables (export) to process
\*   k         how many of them are processed
\*   workDbs   the pools the newDb callback has appended, by owner
\*   open      the pools that are open
\*   target    the target DatabaseWorker of a sync: none, open, closed
\*   dir, files  the staging directory and the table files in it
\*   zip       the archive: none, partial, complete
\*   startErr, zipErr  what task_.Start() and util.Zip returned
\*   dirPath, zipPath, downloadPath  the entries of task_.Extend
\*   cleared   worker.ClearTask was called
NewServiceTask ==
    [kind |-> "none", launcher |-> "idle", pc |-> "unstarted", err |-> NoError,
     n |-> 0, k |-> 0, workDbs |-> <<>>, open |-> {}, target |-> "none",
     dir |-> FALSE, files |-> 0, zip |-> "none",
     startErr |-> "pending", zipErr |-> "pending",
     dirPath |-> "", zipPath |-> "", downloadPath |-> "", cleared |-> FALSE]

Unchanged_Import ==
    UNCHANGED <<cache, cfg, counts, task, frame, db, clock, cleanSince, cancelReq, evals,
                ddl, nm, dat>>

\* service.go:562-609  StartExport up to `go func()`: GetTempDir may fail, and
\* then nothing is started; else Extend holds an empty downloadPath.
Call_StartExport(s, n) ==
    /\ svc[s].kind = "none"
    /\ \/ svc' = [svc EXCEPT ![s] =
                [@ EXCEPT !.kind = "export", !.launcher = "returned_err",
                          !.err = ErrTempDir]]
       \/ svc' = [svc EXCEPT ![s] =
                [@ EXCEPT !.kind = "export", !.launcher = "sleep", !.pc = "run",
                          !.n = n]]
    /\ Unchanged_Import

\* service.go:638-678  StartImport up to `go func()`.
Call_StartImport(s, n) ==
    /\ svc[s].kind = "none"
    /\ svc' = [svc EXCEPT ![s] =
            [@ EXCEPT !.kind = "import", !.launcher = "sleep", !.pc = "run", !.n = n]]
    /\ Unchanged_Import

\* service.go:700-757  StartSync up to `go func()`: NewDatabaseWorker opens
\* the target database or fails, and then nothing is started.
Call_StartSync(s, n) ==
    /\ svc[s].kind = "none"
    /\ \/ svc' = [svc EXCEPT ![s] =
                [@ EXCEPT !.kind = "sync", !.launcher = "returned_err",
                          !.err = ErrTarget]]
       \/ svc' = [svc EXCEPT ![s] =
                [@ EXCEPT !.kind = "sync", !.launcher = "sleep", !.pc = "run",
                          !.n = n, !.target = "open"]]
    /\ Unchanged_Import

\* service.go:629-635, 691-697, 771-777  after the sleep the launcher reads
\* err: ClearTask and the error, or the task.
Launcher_Wake(s) ==
    /\ svc[s].launcher = "sleep"
    /\ svc' = [svc EXCEPT ![s] =
            IF svc[s].err # NoError
            THEN [@ EXCEPT !.launcher = "returned_err", !.cleared = TRUE]
            ELSE [@ EXCEPT !.launcher = "returned_task"]]
    /\ Unchanged_Import

\* service.go:624  err = task_.Start() of an export, a call into the worker
\* library: it creates the staging directory, writes one file per table and
\* returns nil, or returns an error at any point.
Export_Work(s) ==
    /\ svc[s].kind = "export"
    /\ svc[s].pc = "run"
    /\ LET x == svc[s] IN
        \/ /\ ~x.dir
           /\ svc' = [svc EXCEPT ![s].dir = TRUE]
        \/ /\ x.dir /\ x.files < x.n
           /\ svc' = [svc EXCEPT ![s].files = @ + 1]
        \/ /\ x.dir /\ x.files = x.n
           /\ svc' = [svc EXCEPT ![s] =
                    [@ EXCEPT !.pc = "defer", !.startErr = NoError]]
        \/ svc' = [svc EXCEPT ![s] =
                    [@ EXCEPT !.pc = "defer", !.startErr = ErrExport, !.err = ErrExport]]
    /\ Unchanged_Import

\* service.go:611-614  if err != nil { _ = os.RemoveAll(exportDir); return }
Export_Defer(s) ==
    /\ svc[s].kind = "export"
    /\ svc[s].pc = "defer"
    /\ svc' = [svc EXCEPT ![s] =
            IF svc[s].err # NoError
            THEN [@ EXCEPT !.pc = "done", !.dir = FALSE, !.files = 0]
            ELSE [@ EXCEPT !.pc = "zip"]]
    /\ Unchanged_Import

\* The archive step going on to the Extend entries after a failed Zip too.
Export_ZipThenPublish(s) ==
    /\ svc[s].kind = "export"
    /\ svc[s].pc = "zip"
    /\ \/ svc' = [svc EXCEPT ![s] =
                [@ EXCEPT !.pc = "publish", !.zip = "complete", !.zipErr = NoError]]
       \/ \E left \in {"none", "partial"} :
            svc' = [svc EXCEPT ![s] =
                [@ EXCEPT !.pc = "publish", !.zip = left, !.zipErr = ErrZip,
                          !.err = ErrZip]]
    /\ Unchanged_Import

\* service.go:615-619  err = util.Zip(exportDir, exportDir+".zip");
\* if err != nil { log; return }.  A failed Zip may leave part of the archive.
Export_Zip(s) ==
    /\ svc[s].kind = "export"
    /\ svc[s].pc = "zip"
    /\ \/ svc' = [svc EXCEPT ![s] =
                [@ EXCEPT !.pc = "publish", !.zip = "complete", !.zipErr = NoError]]
       \/ \E left \in {"none", "partial"} :
            svc' = [svc EXCEPT ![s] =
                [@ EXCEPT !.pc = "done", !.zip = left, !.zipErr = ErrZip,
                          !.err = ErrZip]]
    /\ Unchanged_Import

\* service.go:620-622  task_.Extend["dirPath"], ["zipPath"], ["downloadPath"]
Export_Publish(s) ==
    /\ svc[s].kind = "export"
    /\ svc[s].pc = "publish"
    /\ svc' = [svc EXCEPT ![s] =
            [@ EXCEPT !.pc = "done", !.dirPath = "exportDir",
                      !.zipPath = "exportDir.zip", !.downloadPath = "downloadPath.zip"]]
    /\ Unchanged_Import

\* The newDb callback returning the pool without appending it to workDbs.
NewDb_Untracked(x) ==
    {[x EXCEPT !.open = @ \cup {x.k + 1}, !.pc = "exec"],
     [x EXCEPT !.pc = "failed"]}

\* service.go:662-673, 738-752  the newDb callback, which task_.Start() calls
\* for the next owner: newWorkDb fails and the error is returned, or the pool
\* is opened and appended to workDbs.
NewDb(x) ==
    {[x EXCEPT !.workDbs = Append(@, x.k + 1), !.open = @ \cup {x.k + 1},
               !.pc = "exec"],
     [x EXCEPT !.pc = "failed"]}

\* service.go:686, 766  err = task_.Start() of an import or a sync, a call into
\* the worker library: it asks for the pool of each owner in turn and works
\* on it.  A failed pool or a failed owner ends it with an error or, when
\* the library carries on, leaves it to go to the next owner.
Task_Work(s) ==
    /\ svc[s].kind \in {"import", "sync"}
    /\ LET x == svc[s] IN
        \/ /\ x.pc = "run" /\ x.k < x.n
           /\ \E y \in NewDb(x) : svc' = [svc EXCEPT ![s] = y]
        \/ /\ x.pc = "run" /\ x.k = x.n
           /\ svc' = [svc EXCEPT ![s] =
                    [@ EXCEPT !.pc = "defer", !.k = 0, !.startErr = NoError]]
        \/ /\ x.pc = "exec"
           /\ svc' = [svc EXCEPT ![s] = [@ EXCEPT !.pc = "run", !.k = @ + 1]]
        \/ /\ x.pc \in {"exec", "failed"}
           /\ \/ svc' = [svc EXCEPT ![s] =
                    [@ EXCEPT !.pc = "defer", !.k = 0,
                              !.startErr = IF x.pc = "failed" THEN ErrPool ELSE ErrOwner,
                              !.err = IF x.pc = "failed" THEN ErrPool ELSE ErrOwner]]
              \/ /\ x.pc = "failed"
                 /\ svc' = [svc EXCEPT ![s] = [@ EXCEPT !.pc = "run", !.k = @ + 1]]
    /\ Unchanged_Import

\* service.go:680-684, 759-762  for _, workDb := range workDbs { _ = workDb.Close() }
Task_DeferClose(s) ==
    /\ svc[s].kind \in {"import", "sync"}
    /\ svc[s].pc = "defer"
    /\ LET x == svc[s] IN
        IF x.k < Len(x.workDbs)
        THEN svc' = [svc EXCEPT ![s] =
                [@ EXCEPT !.open = @ \ {x.workDbs[x.k + 1]}, !.k = @ + 1]]
        ELSE svc' = [svc EXCEPT ![s] =
                [@ EXCEPT !.pc = IF x.kind = "sync" THEN "close_target" ELSE "done",
                          !.k = 0]]
    /\ Unchanged_Import

\* service.go:763  _ = targetDatabaseWorker.db.Close()
Sync_CloseTarget(s) ==
    /\ svc[s].kind = "sync"
    /\ svc[s].pc = "close_target"
    /\ svc' = [svc EXCEPT ![s] = [@ EXCEPT !.pc = "done", !.target = "closed"]]
    /\ Unchanged_Import

\* --------------------------------------------- Service.TableUpdateSql

\* No call of TableUpdateSql, and no call of sortName.
NoDdlCall == [pc |-> "none"]
NoNameCall == [pc |-> "none"]

\* A nil *ColumnModel, *IndexModel or *DatabaseType.
Nil == [nil |-> TRUE]

ErrDialect == "dialect error"

\* The names GetDatabaseType knows, and the dialect of the Service's own
\* connection (this_.DatabaseWorker.Dialect).
DatabaseTypeNames == {"mysql", "oracle"}
SourceDialect == "mysql"

\* service.go:537-538  t := GetDatabaseType(name); if t != nil: the database
\* type registered under the name, or nil.
GetDatabaseType(name) == IF name \in DatabaseTypeNames THEN [dia |-> name] ELSE Nil

\* service.go:535-543  GetTargetDialect
GetTargetDialect(param) ==
    IF param.TargetDatabaseType # "" /\ GetDatabaseType(param.TargetDatabaseType) # Nil
    THEN GetDatabaseType(param.TargetDatabaseType).dia
    ELSE SourceDialect

\* dialect.StringsIndex: the position of s in list (from 0), or -1.
StringsIndex(list, s) ==
    IF \E i \in 1 .. Len(list) : list[i] = s
    THEN (CHOOSE i \in 1 .. Len(list) :
            list[i] = s /\ \A j \in 1 .. i - 1 : list[j] # s) - 1
    ELSE -1

\* The request whose statements are put in front of sqlList.
Request_Prepend(x, op, entry, arg) ==
    IF x.err # NoError THEN x
    ELSE IF x.calls + 1 = x.failAt
    THEN [x EXCEPT !.calls = @ + 1, !.err = ErrDialect, !.pc = "done"]
    ELSE [x EXCEPT !.calls = @ + 1,
                   !.sqlList = <<[op |-> op, dia |-> GetTargetDialect(x.param),
                                  entry |-> entry, arg |-> arg]>> \o @]

\* The request of one operation to the dialect, which TableUpdateSql makes
\* for entry number entry of the column or index list (0 for the primary key).
\* The dialect fails on call number failAt; else its statements are appended
\* to sqlList, where the request stands for them.  After a failure
\* TableUpdateSql has returned and requests nothing more.
Request(x, op, entry, arg) ==
    IF x.err # NoError THEN x
    ELSE IF x.calls + 1 = x.failAt
    THEN [x EXCEPT !.calls = @ + 1, !.err = ErrDialect, !.pc = "done"]
    ELSE [x EXCEPT !.calls = @ + 1,
                   !.sqlList = Append(@, [op |-> op, dia |-> GetTargetDialect(x.param),
                                          entry |-> entry, arg |-> arg])]

Unchanged_Ddl ==
    UNCHANGED <<cache, cfg, counts, task, frame, db, clock, cleanSince, cancelReq, evals,
                svc, nm, dat>>

\* service.go:242-248  each column's ColumnAfterColumn is set to the name of
\* the column before it in the list.
TableUpdateSql_After ==
    /\ ddl.pc = "after"
    /\ ddl' = [ddl EXCEPT
            !.pc = "column",
            !.i = 1,
            !.ColumnList = [j \in 1 .. Len(ddl.ColumnList) |->
                IF j = 1 THEN ddl.ColumnList[j]
                ELSE [ddl.ColumnList[j] EXCEPT
                        !.Column.ColumnAfterColumn =
                            ddl.ColumnList[j - 1].Column.ColumnName]]]
    /\ Unchanged_Ddl

\* Where TableUpdateSql goes on, unless it has returned an error.
Goto(x, pc) == IF x.err # NoError THEN x ELSE [x EXCEPT !.pc = pc]

\* The column loop requesting the update of a column that has no old
\* counterpart as well, after its add.
TableUpdateSql_ColumnAddThenUpdate ==
    /\ ddl.pc = "column"
    /\ IF ddl.i > Len(ddl.ColumnList)
       THEN ddl' = [ddl EXCEPT !.pc = "primary_key", !.i = 0]
       ELSE LET one == ddl.ColumnList[ddl.i]
                hasOld == one.OldColumn # Nil
                x == [ddl EXCEPT
                        !.i = @ + 1,
                        !.newPrimaryKeys =
                            IF one.Column.PrimaryKey
                            THEN Append(@, one.Column.ColumnName) ELSE @,
                        !.oldPrimaryKeys =
                            IF hasOld
                            THEN (IF one.OldColumn.PrimaryKey
                                  THEN Append(@, one.OldColumn.ColumnName) ELSE @)
                            ELSE @]
            IN ddl' =
                IF one.Deleted
                THEN IF hasOld
                     THEN Request(x, "ColumnDeleteSql", ddl.i, <<one.OldColumn.ColumnName>>)
                     ELSE x
                ELSE IF ~hasOld
                THEN Request(Request(x, "ColumnAddSql", ddl.i, <<one.Column.ColumnName>>),
                             "ColumnUpdateSql", ddl.i,
                             <<one.Column.ColumnName, one.Column.ColumnName>>)
                ELSE Request(x, "ColumnUpdateSql", ddl.i,
                             <<one.OldColumn.ColumnName, one.Column.ColumnName>>)
    /\ Unchanged_Ddl

\* service.go:253-283  one column of the list: its names are collected into
\* newPrimaryKeys and oldPrimaryKeys, then a drop is requested for a deleted
\* column that has an old counterpart, an add for a column that has none,
\* and an update (old -> new) for every other column.
TableUpdateSql_Column ==
    /\ ddl.pc = "column"
    /\ IF ddl.i > Len(ddl.ColumnList)
       THEN ddl' = [ddl EXCEPT !.pc = "primary_key", !.i = 0]
       ELSE LET one == ddl.ColumnList[ddl.i]
                hasOld == one.OldColumn # Nil
                x == [ddl EXCEPT
                        !.i = @ + 1,
                        !.newPrimaryKeys =
                            IF one.Column.PrimaryKey
                            THEN Append(@, one.Column.ColumnName) ELSE @,
                        !.oldPrimaryKeys =
                            IF hasOld
                            THEN (IF one.OldColumn.PrimaryKey
                                  THEN Append(@, one.OldColumn.ColumnName) ELSE @)
                            ELSE @]
            IN ddl' =
                IF one.Deleted
                THEN IF hasOld
                     THEN Request(x, "ColumnDeleteSql", ddl.i, <<one.OldColumn.ColumnName>>)
                     ELSE x
                ELSE IF ~hasOld
                THEN Request(x, "ColumnAddSql", ddl.i, <<one.Column.ColumnName>>)
                ELSE Request(x, "ColumnUpdateSql", ddl.i,
                             <<one.OldColumn.ColumnName, one.Column.ColumnName>>)
    /\ Unchanged_Ddl

\* The change of the primary key found by the first loop alone.
PrimaryKeyChangeOldOnly(old, new) ==
    \E i \in 1 .. Len(old) : StringsIndex(new, old[i]) < 0

\* service.go:285-297  primaryKeyChange: an old name is missing from the new
\* names or, failing that, a new name is missing from the old names.
PrimaryKeyChange(old, new) ==
    \/ \E i \in 1 .. Len(old) : StringsIndex(new, old[i]) < 0
    \/ \E i \in 1 .. Len(new) : StringsIndex(old, new[i]) < 0

\* The primary-key step requesting the add before the drop.
TableUpdateSql_PrimaryKeyAddFirst ==
    /\ ddl.pc = "primary_key"
    /\ LET old == ddl.oldPrimaryKeys
           new == ddl.newPrimaryKeys
           x1 == IF Len(new) > 0
                 THEN Request(ddl, "PrimaryKeyAddSql", 0, new) ELSE ddl
           x2 == IF Len(old) > 0
                 THEN Request(x1, "PrimaryKeyDeleteSql", 0, <<>>) ELSE x1
       IN ddl' = IF PrimaryKeyChange(old, new)
                 THEN [Goto(x2, "index") EXCEPT !.i = 1]
                 ELSE [ddl EXCEPT !.pc = "index", !.i = 1]
    /\ Unchanged_Ddl

\* service.go:298-313  on a change the drop of the primary key is requested
\* when there was an old one, then the add when there is a new one.
TableUpdateSql_PrimaryKey ==
    /\ ddl.pc = "primary_key"
    /\ LET old == ddl.oldPrimaryKeys
           new == ddl.newPrimaryKeys
           x1 == IF Len(old) > 0
                 THEN Request(ddl, "PrimaryKeyDeleteSql", 0, <<>>) ELSE ddl
           x2 == IF Len(new) > 0
                 THEN Request(x1, "PrimaryKeyAddSql", 0, new) ELSE x1
       IN ddl' = IF PrimaryKeyChange(old, new)
                 THEN [Goto(x2, "index") EXCEPT !.i = 1]
                 ELSE [ddl EXCEPT !.pc = "index", !.i = 1]
    /\ Unchanged_Ddl

RECURSIVE Join(_, _)
\* strings.Join: the strings of ss, each a sequence of characters, with sep
\* between them.
Join(ss, sep) ==
    IF ss = <<>> THEN <<>>
    ELSE IF Len(ss) = 1 THEN ss[1]
    ELSE ss[1] \o sep \o Join(Tail(ss), sep)

\* service.go:332-335  the index differs from its old counterpart in name,
\* type, comment or in the column names joined by ",".
IndexChanged(one) ==
    \/ one.Index.IndexName # one.OldIndex.IndexName
    \/ one.Index.IndexType # one.OldIndex.IndexType
    \/ one.Index.IndexComment # one.OldIndex.IndexComment
    \/ Join(one.Index.ColumnNames, <<",">>) # Join(one.OldIndex.ColumnNames, <<",">>)

\* service.go:315-349  one index of the list: a drop for a deleted index that
\* has an old counterpart, an add for an index that has none, and a drop
\* followed by an add when name, type, comment or the joined column names
\* differ from the old ones; then the return.
TableUpdateSql_Index ==
    /\ ddl.pc = "index"
    /\ IF ddl.i > Len(ddl.IndexList)
       THEN ddl' = [ddl EXCEPT !.pc = "done", !.i = 0]
       ELSE LET one == ddl.IndexList[ddl.i]
                hasOld == one.OldIndex # Nil
                x == [ddl EXCEPT !.i = @ + 1]
            IN ddl' =
                IF one.Deleted
                THEN IF hasOld
                     THEN Request(x, "IndexDeleteSql", ddl.i, <<one.OldIndex.IndexName>>)
                     ELSE x
                ELSE IF ~hasOld
                THEN Request(x, "IndexAddSql", ddl.i, <<one.Index.IndexName>>)
                ELSE IF IndexChanged(one)
                THEN Request(Request(x, "IndexDeleteSql", ddl.i, <<one.OldIndex.IndexName>>),
                             "IndexAddSql", ddl.i, <<one.Index.IndexName>>)
                ELSE x
    /\ Unchanged_Ddl

\* ------------------------------------------- inputs of TableUpdateSql

\* The column models of the inputs.  A caller leaves ColumnAfterColumn empty.
ColumnModels ==
    [ColumnName : {"a", "b"}, PrimaryKey : BOOLEAN, ColumnAfterColumn : {""}]

\* service.go:230-234  UpdateTableColumn
UpdateTableColumns ==
    [Column : ColumnModels, OldColumn : ColumnModels \cup {Nil}, Deleted : BOOLEAN]

\* The index models of the inputs; a column name is a sequence of characters.
IndexModels ==
    [IndexName : {"i"}, IndexType : {"", "unique"}, IndexComment : {""},
     ColumnNames : {<< <<"a">> >>, << <<"a">>, <<"b">> >>, << <<"b">>, <<"a">> >>,
                    << <<"a", ",", "b">> >>}]

\* service.go:235-239  UpdateTableIndex
UpdateTableIndexes ==
    [Index : IndexModels, OldIndex : IndexModels \cup {Nil}, Deleted : BOOLEAN]

\* The table orders with columns (id primary key, status), and the request
\* to drop status, add region and add the primary-key column tenant_id.
OrdersColumn(name, pk) ==
    [ColumnName |-> name, PrimaryKey |-> pk, ColumnAfterColumn |-> ""]

OrdersColumnList ==
    << [Column |-> OrdersColumn("id", TRUE), OldColumn |-> OrdersColumn("id", TRUE),
        Deleted |-> FALSE],
       [Column |-> OrdersColumn("status", FALSE),
        OldColumn |-> OrdersColumn("status", FALSE), Deleted |-> TRUE],
       [Column |-> OrdersColumn("region", FALSE), OldColumn |-> Nil, Deleted |-> FALSE],
       [Column |-> OrdersColumn("tenant_id", TRUE), OldColumn |-> Nil,
        Deleted |-> FALSE] >>

\* The index entries over the single column a: new, unchanged, changed in
\* type, each deleted or not.
PlainIndex(type) ==
    [IndexName |-> "i", IndexType |-> type, IndexComment |-> "",
     ColumnNames |-> << <<"a">> >>]

PlainIndexEntries ==
    [Index : {PlainIndex("")}, OldIndex : {Nil, PlainIndex(""), PlainIndex("unique")},
     Deleted : BOOLEAN]

\* service.go:223-228  the UpdateTableParam values of the inputs: up to
\* MaxColumns columns and no index, or up to one column and up to MaxIndexes
\* indexes, or up to one column and up to MaxPlainIndexes indexes over the
\* column a, or the orders request.
UpdateTableParams ==
    {[ColumnList |-> cs, IndexList |-> <<>>]
        : cs \in SeqsUpTo(UpdateTableColumns, MaxColumns)}
    \cup {[ColumnList |-> cs, IndexList |-> xs]
        : cs \in SeqsUpTo(UpdateTableColumns, MaxColumns - 1),
          xs \in SeqsUpTo(UpdateTableIndexes, MaxIndexes)}
    \cup {[ColumnList |-> cs, IndexList |-> xs]
        : cs \in SeqsUpTo(UpdateTableColumns, MaxColumns - 1),
          xs \in SeqsUpTo(PlainIndexEntries, MaxPlainIndexes)}
    \cup {[ColumnList |-> OrdersColumnList, IndexList |-> <<>>]}

\* service.go:780-795  Param: the target dialect override.
TargetDatabaseTypes == {"", "oracle", "nosuch"}

\* service.go:241  a call of TableUpdateSql(param, ownerName, tableName,
\* updateTableParam), with the dialect failing on call number failAt (0: never).
Call_TableUpdateSql(target, utp, failAt) ==
    [pc |-> "after", param |-> [TargetDatabaseType |-> target], input |-> utp,
     ColumnList |-> utp.ColumnList, IndexList |-> utp.IndexList,
     failAt |-> failAt, calls |-> 0, i |-> 0,
     newPrimaryKeys |-> <<>>, oldPrimaryKeys |-> <<>>,
     sqlList |-> <<>>, err |-> NoError]

\* ---------------------------------------------------------------- sortName
\* A string is the sequence of its characters.

ErrDivide == "runtime error: integer divide by zero"
ErrSlice == "runtime error: slice bounds out of range"

RECURSIVE TrimLeft(_)
TrimLeft(s) == IF s # <<>> /\ Head(s) = " " THEN TrimLeft(Tail(s)) ELSE s

RECURSIVE TrimRight(_)
TrimRight(s) ==
    IF s # <<>> /\ s[Len(s)] = " " THEN TrimRight(SubSeq(s, 1, Len(s) - 1)) ELSE s

\* strings.TrimSpace
TrimSpace(s) == TrimRight(TrimLeft(s))

\* strings.Contains(s, c) for a one-character c
Contains(s, c) == \E k \in 1 .. Len(s) : s[k] = c

RECURSIVE Split(_, _)
\* strings.Split(s, c) for a one-character c: the pieces between the
\* occurrences of c, the empty ones included.
Split(s, c) ==
    IF ~Contains(s, c) THEN <<s>>
    ELSE LET k == CHOOSE j \in 1 .. Len(s) : s[j] = c /\ \A h \in 1 .. j - 1 : s[h] # c
         IN <<SubSeq(s, 1, k - 1)>> \o Split(SubSeq(s, k + 1, Len(s)), c)

\* service.go:807-812  names: the pieces that are not blank.
NonBlank(ss) == SelectSeq(ss, LAMBDA s : TrimSpace(s) # <<>>)

RECURSIVE Segments(_, _, _, _, _)
\* service.go:815-832  the loop over the pieces from piece i on, with the
\* result so far in res: it stops once res has size characters; a piece
\* before the last is taken whole when rSize >= len(s)-1 and cut to rSize-1
\* characters otherwise, and gets a "_"; the last one is cut to rSize.
Segments(ss, i, rSize, size, res) ==
    IF i > Len(ss) \/ Len(res) >= size THEN [res |-> res, panic |-> NoError]
    ELSE LET s == ss[i] IN
         IF i < Len(ss)
         THEN IF rSize >= Len(s) - 1
              THEN Segments(ss, i + 1, rSize, size, res \o s \o <<"_">>)
              ELSE IF rSize - 1 < 0 THEN [res |-> res, panic |-> ErrSlice]
              ELSE Segments(ss, i + 1, rSize, size,
                            res \o SubSeq(s, 1, rSize - 1) \o <<"_">>)
         ELSE IF rSize >= Len(s)
              THEN [res |-> res \o s, panic |-> NoError]
              ELSE [res |-> res \o SubSeq(s, 1, rSize), panic |-> NoError]

\* service.go:799-836  sortName once the name is trimmed.
Shorten(name, size) ==
    IF Len(name) <= size THEN [res |-> name, panic |-> NoError]
    ELSE IF Contains(name, "_")
    THEN LET ss == Split(name, "_")
             names == NonBlank(ss)
         IN IF Len(names) = 0 THEN [res |-> <<>>, panic |-> ErrDivide]
            ELSE Segments(ss, 1, size \div Len(names), size, <<>>)
    ELSE [res |-> SubSeq(name, 1, size), panic |-> NoError]

\* sortName without the TrimSpace of its first line.
sortName_Untrimmed(name, size) == Shorten(name, size)

\* service.go:797-837  sortName(name, size): the result, or the panic that
\* ends the call.
sortName(name, size) == Shorten(TrimSpace(name), size)

\* The names and sizes of the inputs.
NameChars == {"a", "_", " "}
InputNames == SeqsUpTo(NameChars, MaxNameLen)
InputSizes == 0 .. MaxSize

Unchanged_Name ==
    UNCHANGED <<cache, cfg, counts, task, frame, db, clock, cleanSince, cancelReq, evals,
                svc, ddl, dat>>

\* A call sortName(name, size) about to be made.
Call_sortName(name, size) ==
    [pc |-> "call", name |-> name, size |-> size,
     first |-> [res |-> <<>>, panic |-> NoError],
     second |-> [res |-> <<>>, panic |-> NoError]]

\* The call returns, or panics.
SortName_Return ==
    /\ nm.pc = "call"
    /\ nm' = [nm EXCEPT !.pc = "returned", !.first = sortName(nm.name, nm.size)]
    /\ Unchanged_Name

\* sortName is applied to the result of the first call.
SortName_Again ==
    /\ nm.pc = "returned"
    /\ nm.first.panic = NoError
    /\ nm' = [nm EXCEPT !.pc = "again", !.second = sortName(nm.first.res, nm.size)]
    /\ Unchanged_Name

\* ------------------------------------------ DataListSql and TableData
\* The dialect and the worker are consumed as operations that succeed or
\* fail: the call number failAt fails (0: none does).

NoDataCall == [pc |-> "none"]

ErrQuery == "query error"

\* The values of the *bool field AppendSqlValue of the ParamModel: nil, or a
\* pointer to true or to false.
AppendSqlValues == {"nil", "true", "false"}

Unchanged_Data ==
    UNCHANGED <<cache, cfg, counts, task, frame, db, clock, cleanSince, cancelReq, evals,
                svc, ddl, nm>>

\* One call of the dialect or of the worker made by x: it fails with e when
\* it is call number failAt, and then x returns.
DataRequest(x, e) ==
    IF x.calls + 1 = x.failAt
    THEN [x EXCEPT !.calls = @ + 1, !.err = e, !.pc = "done"]
    ELSE [x EXCEPT !.calls = @ + 1]

\* service.go:374  a call of DataListSql(param, ...): the value of
\* param.AppendSqlValue on entry and, for each of the three data lists,
\* whether it holds rows.
Call_DataListSql(entry, insert, update, delete, failAt) ==
    [fn |-> "DataListSql", pc |-> "insert", entry |-> entry, AppendSqlValue |-> entry,
     insert |-> insert, update |-> update, delete |-> delete,
     failAt |-> failAt, calls |-> 0, err |-> NoError, sqlList |-> <<>>]

\* service.go:387-415  one of the three blocks of DataListSql: when the list
\* has rows, AppendSqlValue is pointed at a new true and the statements are
\* requested from the dialect; an error returns at once.
DataListSql_Block(pc, has, op, next) ==
    /\ dat.pc = pc
    /\ dat.fn = "DataListSql"
    /\ dat' =
        IF ~has THEN [dat EXCEPT !.pc = next]
        ELSE LET x == DataRequest([dat EXCEPT !.AppendSqlValue = "true"], ErrDialect)
             IN IF x.err # NoError THEN x
                ELSE [x EXCEPT !.pc = next, !.sqlList = Append(@, op)]
    /\ Unchanged_Data

\* service.go:387-395
DataListSql_Insert ==
    DataListSql_Block("insert", dat.insert, "DataListInsertSql", "update")

\* service.go:396-404
DataListSql_Update ==
    DataListSql_Block("update", dat.update, "DataListUpdateSql", "delete")

\* service.go:405-414
DataListSql_Delete ==
    DataListSql_Block("delete", dat.delete, "DataListDeleteSql", "done")

\* strings.ToLower on the letters of the names of the inputs.
LowerChar(c) ==
    CASE c = "A" -> "a"
      [] c = "B" -> "b"
      [] c = "C" -> "c"
      [] OTHER -> c

ToLower(s) == [i \in 1 .. Len(s) |-> LowerChar(s[i])]

\* util.ContainsString(list, s): the position of s in list (from 0), or -1.
ContainsString(list, s) ==
    IF \E i \in 1 .. Len(list) : list[i] = s
    THEN (CHOOSE i \in 1 .. Len(list) :
            list[i] = s /\ \A j \in 1 .. i - 1 : list[j] # s) - 1
    ELSE -1

\* service.go:504-517  the value stored for a value of each kind: nil for the
\* zero time, milliseconds for another time, a string for everything else.
Normalize(v) ==
    CASE v = "zero time" -> "nil"
      [] v = "time" -> "milliseconds"
      [] v \in {"float64", "float32"} -> "string %f"
      [] v = "int64" -> "string %d"
      [] OTHER -> "string"

\* service.go:491-494  the lower-cased names of the requested columns.
LowerNames(columnList) == [j \in 1 .. Len(columnList) |-> ToLower(columnList[j])]

\* service.go:496-518  the loop over one row of the result: a nil value is
\* skipped, a key that is no requested column is deleted, and any other
\* value is normalized.
ProjectItem(item, names) ==
    LET kept == {name \in DOMAIN item :
                    \/ item[name] = "nil"
                    \/ ContainsString(names, ToLower(name)) >= 0}
    IN [name \in kept |-> IF item[name] = "nil" THEN "nil" ELSE Normalize(item[name])]

\* service.go:470  a call of TableData(param, ..., columnList, ...): the value
\* of param.AppendSqlValue on entry, the names of the requested columns and
\* the rows the query gives.
Call_TableData(entry, columnList, listMap, failAt) ==
    [fn |-> "TableData", pc |-> "select", entry |-> entry, AppendSqlValue |-> entry,
     columnList |-> columnList, listMap |-> listMap, i |-> 0,
     failAt |-> failAt, calls |-> 0, err |-> NoError, DataList |-> <<>>]

\* service.go:472-476  param.AppendSqlValue = nil; the select statement with
\* bound values.
TableData_Select ==
    /\ dat.pc = "select"
    /\ dat' = LET x == DataRequest([dat EXCEPT !.AppendSqlValue = "nil"], ErrDialect)
              IN IF x.err # NoError THEN x ELSE [x EXCEPT !.pc = "select_text"]
    /\ Unchanged_Data

\* service.go:477-482  AppendSqlValue is pointed at a new true; the select
\* statement as text.
TableData_SelectText ==
    /\ dat.pc = "select_text"
    /\ dat' = LET x == DataRequest([dat EXCEPT !.AppendSqlValue = "true"], ErrDialect)
              IN IF x.err # NoError THEN x ELSE [x EXCEPT !.pc = "query"]
    /\ Unchanged_Data

\* service.go:484-490  QueryMapPage
TableData_Query ==
    /\ dat.pc = "query"
    /\ dat' = LET x == DataRequest(dat, ErrQuery)
              IN IF x.err # NoError THEN x ELSE [x EXCEPT !.pc = "project", !.i = 1]
    /\ Unchanged_Data

\* service.go:495-524  the rows are projected one by one, in place; then the
\* result is filled in and returned.
TableData_Project ==
    /\ dat.pc = "project"
    /\ dat' =
        IF dat.i > Len(dat.listMap)
        THEN [dat EXCEPT !.pc = "done", !.i = 0, !.DataList = dat.listMap]
        ELSE [dat EXCEPT !.i = @ + 1,
                         !.listMap[dat.i] =
                            ProjectItem(@, LowerNames(dat.columnList))]
    /\ Unchanged_Data

\* The names of the requested columns and the keys of the rows of the
\* inputs, each a sequence of characters.
InputColumnNames == {<<"A">>, <<"b">>}
InputKeys == {<<"a">>, <<"B">>, <<"c">>}
InputValues == {"nil", "zero time", "int64"}

\* The rows a query can give: a value under each key of a set of keys.
InputItems == UNION {[K -> InputValues] : K \in SUBSET InputKeys}

\* --------------------------------------------------------- specifications

UnspawnedFrame(t) == [IdleFrame EXCEPT !.op = "worker", !.t = t, !.pc = "unspawned"]

\* A task that is never built keeps this configuration.
NoConfig == [Key |-> "k1", ImportType |-> "other", BatchNumber |-> 0, strategies |-> <<>>]

\* The state after the callers have built the tasks in T from the
\* configurations in C, with the threads in A ready to call and the clock
\* reading now.
InitTasks(T, C, A, now) ==
    /\ cache = [k \in Keys |-> NoTask]
    /\ cfg \in [Tasks -> C \cup {NoConfig}]
    /\ \A t \in Tasks : IF t \in T THEN cfg[t] \in C ELSE cfg[t] = NoConfig
    /\ counts = [t \in Tasks |->
            [s \in 1 .. Len(cfg[t].strategies) |-> cfg[t].strategies[s].count]]
    /\ task = [t \in Tasks |-> NewTask]
    /\ frame = [r \in Runners |->
            IF r \in Workers
            THEN LET t == CHOOSE u \in Tasks : WorkerOf(u) = r
                 IN IF t \in T THEN UnspawnedFrame(t)
                    ELSE [IdleFrame EXCEPT !.op = "worker", !.pc = "absent"]
            ELSE IF r \in A THEN IdleFrame
            ELSE [IdleFrame EXCEPT !.pc = "absent"]]
    /\ db = [t \in Tasks |-> <<>>]
    /\ clock = now
    /\ cleanSince = [t \in Tasks |-> FALSE]
    /\ cancelReq = [t \in Tasks |-> FALSE]
    /\ evals = [t \in Tasks |-> 0]
    /\ svc = [s \in ServiceTasks |-> NewServiceTask]

\* The same, with no call of TableUpdateSql and none of sortName under way.
InitWith(T, C, A, now) ==
    /\ InitTasks(T, C, A, now)
    /\ ddl = NoDdlCall
    /\ nm = NoNameCall
    /\ dat = NoDataCall

Next ==
    \/ \E c \in Callers, t \in Tasks : Call_StartImportTask(c, t)
    \/ \E c \in Callers, k \in Keys : Call_GetImportTask(c, k)
    \/ \E c \in Callers, k \in Keys : Call_StopImportTask(c, k)
    \/ \E c \in Callers, k \in Keys : Call_CleanImportTask(c, k)
    \/ \E c \in Callers : Registry_Step(c)
    \/ \E t \in Tasks : ImportTask_Stop(t)
    \/ \E r \in Runners : Start_Step(r)


\* Every registry function and every step of Start: one task of at most one
\* strategy, one caller.
ImportConfigs ==
    {c \in TaskConfigs(1) : c.Key = "k1" /\ (c.ImportType = "other" => c.strategies = <<>>)}
Init == InitWith({1}, ImportConfigs, {"c1"}, 1)
Spec == Init /\ [][Next]_vars

\* The registry under two callers: two tasks whose Start does no import work.
RegistryConfigs ==
    {c \in TaskConfigs(0) : c.ImportType = "other" /\ c.BatchNumber = 0}
InitRegistry ==
    /\ InitWith(Tasks, RegistryConfigs, Callers, MaxClock)
    /\ cfg[1].Key = "k1"
NextRegistry ==
    \/ \E c \in Callers, t \in Tasks : Call_StartImportTask(c, t)
    \/ \E c \in Callers, k \in Keys : Call_GetImportTask(c, k)
    \/ \E c \in Callers, k \in Keys : Call_StopImportTask(c, k)
    \/ \E c \in Callers, k \in Keys : Call_CleanImportTask(c, k)
    \/ \E c \in Callers : Registry_Step(c)
    \/ \E t \in Tasks : ImportTask_Stop(t)
    \/ \E r \in Runners :
        Start_Begin(r) \/ Start_EndTime(r) \/ Start_IsEnd(r) \/ Start_UseTime(r)
SpecRegistry == InitRegistry /\ [][NextRegistry]_vars


\* The import worker alone: one task of up to MaxStrategies strategies,
\* launched by one caller and stopped, if at all, through ImportTask.Stop.
WorkerConfigs ==
    {c \in TaskConfigs(MaxStrategies) :
        c.Key = "k1" /\ (c.ImportType = "other" => c.strategies = <<>>)}
InitImport == InitWith({1}, WorkerConfigs, {"c1"}, 1)
NextImport ==
    \/ \E c \in Callers, t \in Tasks : Call_StartImportTask(c, t)
    \/ \E c \in Callers : StartImportTask_Register(c) \/ StartImportTask_Go(c)
    \/ \E t \in Tasks : ImportTask_Stop(t)
    \/ \E r \in Runners : Start_Step(r)
SpecImport == InitImport /\ [][NextImport]_vars

\* Scheduling: a goroutine that is inside Start keeps being scheduled, and
\* every database and script call it makes returns.  Callers owe nothing.
FairConfigs ==
    {c \in ImportConfigs :
        /\ c.BatchNumber = 1
        /\ \A i \in 1 .. Len(c.strategies) :
            /\ c.strategies[i].columns = <<"expr">>
            /\ c.strategies[i].count \in
                 {[kind |-> "float64", val |-> n] : n \in 1 .. MaxCount}}
InitFair == InitWith({1}, FairConfigs, {"c1"}, MaxClock)
FairSpec ==
    /\ InitFair
    /\ [][Next]_vars
    /\ \A r \in Runners : WF_vars(Start_Step(r))


\* The Service tasks alone: no import task is built.
InitService == InitWith({}, {}, {}, 1)
NextService ==
    \/ \E s \in ServiceTasks, n \in 0 .. MaxOwners : Call_StartExport(s, n)
    \/ \E s \in ServiceTasks, n \in 0 .. MaxOwners : Call_StartImport(s, n)
    \/ \E s \in ServiceTasks, n \in 0 .. MaxOwners : Call_StartSync(s, n)
    \/ \E s \in ServiceTasks : Launcher_Wake(s)
    \/ \E s \in ServiceTasks : Export_Work(s)
    \/ \E s \in ServiceTasks : Export_Defer(s)
    \/ \E s \in ServiceTasks : Export_Zip(s)
    \/ \E s \in ServiceTasks : Export_Publish(s)
    \/ \E s \in ServiceTasks : Task_Work(s)
    \/ \E s \in ServiceTasks : Task_DeferClose(s)
    \/ \E s \in ServiceTasks : Sync_CloseTarget(s)
SpecService == InitService /\ [][NextService]_vars

\* A call of TableUpdateSql on every input, and nothing else.
InitDdl ==
    /\ InitTasks({}, {}, {}, 1)
    /\ ddl \in {Call_TableUpdateSql(target, utp, failAt)
                    : target \in TargetDatabaseTypes, utp \in UpdateTableParams,
                      failAt \in 0 .. MaxFailAt}
    /\ nm = NoNameCall
    /\ dat = NoDataCall
NextDdl ==
    \/ TableUpdateSql_After
    \/ TableUpdateSql_Column
    \/ TableUpdateSql_PrimaryKey
    \/ TableUpdateSql_Index
SpecDdl == InitDdl /\ [][NextDdl]_vars

\* A call of sortName on every input, and nothing else.
InitName ==
    /\ InitTasks({}, {}, {}, 1)
    /\ ddl = NoDdlCall
    /\ nm \in {Call_sortName(name, size) : name \in InputNames, size \in InputSizes}
    /\ dat = NoDataCall
NextName ==
    \/ SortName_Return
    \/ SortName_Again
SpecName == InitName /\ [][NextName]_vars

\* A call of DataListSql or of TableData on every input, and nothing else.
InitData ==
    /\ InitTasks({}, {}, {}, 1)
    /\ ddl = NoDdlCall
    /\ nm = NoNameCall
    /\ dat \in {Call_DataListSql(e, i, u, d, f)
                    : e \in AppendSqlValues, i \in BOOLEAN, u \in BOOLEAN,
                      d \in BOOLEAN, f \in 0 .. MaxDataFailAt}
               \cup {Call_TableData(e, cs, rows, f)
                    : e \in AppendSqlValues,
                      cs \in SeqsUpTo(InputColumnNames, MaxRequested),
                      rows \in SeqsUpTo(InputItems, MaxRows),
                      f \in 0 .. MaxDataFailAt}
NextData ==
    \/ DataListSql_Insert
    \/ DataListSql_Update
    \/ DataListSql_Delete
    \/ TableData_Select
    \/ TableData_SelectText
    \/ TableData_Query
    \/ TableData_Project
SpecData == InitData /\ [][NextData]_vars

\* ------------------------------------------------------------------ claims

WorkerFrame(t) == frame[WorkerOf(t)]

\* The deferred function of Start has run to its end in the task's worker.
WorkerDone(t) == WorkerFrame(t).pc = "done"

\* C1: when StopImportTask(key) has found a registered task and is about to
\* return it, that task's cancellation flag IsStop is true.
C1_StopImportTaskSetsIsStop ==
    \A c \in Callers :
        (frame[c].op = "StopImportTask" /\ frame[c].pc = "done")
            => task[frame[c].t].IsStop

\* C2: every task whose worker was started eventually has its worker through
\* the end-of-task bookkeeping, with IsEnd true and EndTime set, whatever the
\* work did; and once a worker that failed or panicked has set IsEnd, Error
\* is non-empty.
C2_StartedWorkerEnds ==
    /\ \A t \in Tasks :
        Spawned(t) ~> (WorkerDone(t) /\ task[t].IsEnd /\ task[t].EndTime # 0)
    /\ [](\A t \in Tasks :
            (WorkerFrame(t).pc \in {"use_time", "done"} /\ WorkerFrame(t).panic # NoError)
                => (task[t].IsEnd /\ task[t].Error # NoError))

\* C2 witness: a worker whose script failed after a row was ready has ended.
C2_Witness ==
    \E t \in Tasks :
        /\ WorkerDone(t)
        /\ WorkerFrame(t).panic = ErrScript
        /\ task[t].IsEnd
        /\ task[t].Error # NoError
        /\ task[t].ReadyDataCount > 0

\* C3: a GetImportTask(key) that reads the registry after StartImportTask has
\* started the worker of the task with that key, with no clean of the key and
\* no other registration under it requested since, returns that task.
C3_GetAfterStartFindsTask ==
    \A c \in Callers, t \in Tasks :
        ( /\ frame[c].op = "GetImportTask"
          /\ frame[c].pc = "lookup"
          /\ frame[c].key = cfg[t].Key
          /\ Spawned(t)
          /\ ~cleanSince[t] )
            => GetImportTask_Result(c) = t

\* C3 witness: such a lookup is about to return a task whose worker runs.
C3_Witness ==
    \E c \in Callers, t \in Tasks :
        /\ frame[c].op = "GetImportTask"
        /\ frame[c].pc = "lookup"
        /\ frame[c].key = cfg[t].Key
        /\ WorkerFrame(t).pc = "start"
        /\ ~cleanSince[t]
        /\ GetImportTask_Result(c) = t

\* C4: the delete of CleanImportTask(key), on a task that has ended, empties
\* the entry under key and leaves every other entry as it was; an empty entry
\* stays empty until a StartImportTask registers a task under that key, and
\* GetImportTask returns nil for an empty entry.
C4_CleanRemovesOnlyItsKey ==
    /\ [][ /\ \A c \in Callers :
                (CleanImportTask_Delete(c) /\ task[frame[c].t].IsEnd)
                    => /\ cache'[frame[c].key] = NoTask
                       /\ \A k \in Keys \ {frame[c].key} : cache'[k] = cache[k]
           /\ \A k \in Keys :
                (cache[k] = NoTask /\ cache'[k] # NoTask)
                    => \E c \in Callers :
                         StartImportTask_Register(c) /\ frame[c].key = k
         ]_vars
    /\ [](\A c \in Callers :
            (frame[c].op = "GetImportTask" /\ frame[c].pc = "lookup"
                /\ cache[frame[c].key] = NoTask)
                => GetImportTask_Result(c) = NoTask)

\* C4 witness: an ended task is gone from the registry and a GetImportTask of
\* its key is reading nil, while the task under the other key is still there.
C4_Witness ==
    \E t, u \in Tasks, c \in Callers :
        /\ Spawned(t) /\ task[t].IsEnd
        /\ cache[cfg[t].Key] = NoTask
        /\ cfg[u].Key # cfg[t].Key
        /\ cache[cfg[u].Key] = u
        /\ frame[c].op = "GetImportTask" /\ frame[c].pc = "lookup"
        /\ frame[c].key = cfg[t].Key

\* C5: register, lookup and clean are mutually exclusive: no two threads are
\* inside an access of the registry map at the same time.
C5_RegistryMutualExclusion == Cardinality(InMap) <= 1

\* C6: once the evaluation of a column expression has failed in a thread
\* running the task, no row of the task is evaluated and no batch is flushed
\* any more, and when that thread has finished the task has IsEnd true, a
\* non-empty Error and ReadyDataCount < DataCount.
EvalFailed(t) == \E r \in Runners : frame[r].t = t /\ frame[r].panic = ErrScript

C6_EvalFailureAbortsTask ==
    /\ [][\A t \in Tasks :
            EvalFailed(t) => (evals'[t] = evals[t] /\ db'[t] = db[t])]_vars
    /\ [](\A r \in Runners :
            (frame[r].panic = ErrScript /\ frame[r].pc = "done")
                => LET t == frame[r].t
                   IN /\ task[t].IsEnd
                      /\ task[t].Error # NoError
                      /\ task[t].ReadyDataCount < task[t].DataCount)

RECURSIVE Flatten(_)
\* The rows of a sequence of batches, in the order they were inserted.
Flatten(batches) ==
    IF batches = <<>> THEN <<>> ELSE Head(batches) \o Flatten(Tail(batches))

\* The count a strategy requests: nil and negative counts request no row.
Requested(st) == IF st.count.kind = "nil" THEN 0 ELSE Max(st.count.val, 0)

RECURSIVE PlannedRows(_, _)
\* The rows strategies s, s+1, ... of the list ss ask for: indexes 0 .. N-1.
PlannedRows(ss, s) ==
    IF s > Len(ss) THEN <<>>
    ELSE [i \in 1 .. Requested(ss[s]) |-> [s |-> s, idx |-> i - 1]]
            \o PlannedRows(ss, s + 1)

\* C7: when the worker of a strategy task has ended with no cancellation and
\* no error, the rows inserted are exactly rows 0 .. N-1 of every strategy,
\* in index order within a strategy and in list order across strategies, and
\* SuccessCount = ReadyDataCount = DataCount = the sum of the requested counts.
C7_AllRowsInsertedInOrder ==
    \A t \in Tasks :
        ( /\ WorkerDone(t)
          /\ cfg[t].ImportType = "strategy"
          /\ ~task[t].IsStop /\ ~cancelReq[t]
          /\ task[t].Error = NoError )
            => LET rows == PlannedRows(cfg[t].strategies, 1)
               IN /\ Flatten(db[t]) = rows
                  /\ evals[t] = Len(rows)
                  /\ task[t].DataCount = Len(rows)
                  /\ task[t].ReadyDataCount = Len(rows)
                  /\ task[t].SuccessCount = Len(rows)
                  /\ task[t].ErrorCount = 0

\* C7 witness: two strategies of MaxCount rows each were inserted in full.
C7_Witness ==
    \E t \in Tasks :
        /\ WorkerDone(t)
        /\ ~task[t].IsStop /\ ~cancelReq[t]
        /\ task[t].Error = NoError
        /\ Len(cfg[t].strategies) = 2
        /\ task[t].SuccessCount = 2 * MaxCount
        /\ Len(db[t]) > 2

\* The goroutine of a Service task has run its deferred function to the end.
ServiceWorkerDone(s) == svc[s].pc = "done"

\* C8: once the worker of an export has finished after a failure, of the
\* export work or of the archive step, the staging directory is gone.
C8_FailedExportRemovesStagingDir ==
    \A s \in ServiceTasks :
        ( /\ svc[s].kind = "export"
          /\ ServiceWorkerDone(s)
          /\ (svc[s].startErr = ErrExport \/ svc[s].zipErr = ErrZip) )
            => ~svc[s].dir

\* C9: zipPath and downloadPath of an export are empty unless the export
\* work and the archive step have both completed without error.
C9_ArchivePathOnlyOnSuccess ==
    \A s \in ServiceTasks :
        (svc[s].downloadPath # "" \/ svc[s].zipPath # "")
            => /\ svc[s].kind = "export"
               /\ svc[s].startErr = NoError
               /\ svc[s].zipErr = NoError
               /\ svc[s].zip = "complete"

\* C9 witness: one export has published its archive path, and another one has
\* finished after a failed archive step with its downloadPath still empty.
C9_Witness ==
    \E s, u \in ServiceTasks :
        /\ ServiceWorkerDone(s) /\ svc[s].downloadPath # ""
        /\ svc[s].files = MaxOwners
        /\ ServiceWorkerDone(u) /\ svc[u].zipErr = ErrZip
        /\ svc[u].downloadPath = ""

\* C10: when the worker of an import or of a sync has ended, normally, with
\* an execution error or after a failed pool, no pool the task opened is
\* open, and the target database of a sync is closed.
C10_PoolsClosedAtWorkerEnd ==
    \A s \in ServiceTasks :
        (svc[s].kind \in {"import", "sync"} /\ ServiceWorkerDone(s))
            => /\ svc[s].open = {}
               /\ svc[s].kind = "sync" => svc[s].target = "closed"

\* C10 witness: a sync has ended after the pool of its second owner failed,
\* with the pool of its first owner and its target closed, and an import has
\* ended normally with two pools opened and closed.
C10_Witness ==
    \E s, u \in ServiceTasks :
        /\ svc[s].kind = "sync" /\ ServiceWorkerDone(s)
        /\ svc[s].startErr = ErrPool
        /\ svc[s].workDbs = <<1>>
        /\ svc[s].open = {} /\ svc[s].target = "closed"
        /\ svc[u].kind = "import" /\ ServiceWorkerDone(u)
        /\ svc[u].startErr = NoError
        /\ Len(svc[u].workDbs) = MaxOwners
        /\ svc[u].open = {}

\* C12: whenever a task that was never cancelled (no Stop and no
\* StopImportTask reached it) has IsEnd true, either Error is non-empty or
\* every planned row was inserted: SuccessCount = DataCount and ErrorCount = 0.
C12_EndedWithErrorOrComplete ==
    \A t \in Tasks :
        (task[t].IsEnd /\ ~task[t].IsStop /\ ~cancelReq[t])
            => \/ task[t].Error # NoError
               \/ /\ task[t].SuccessCount = task[t].DataCount
                  /\ task[t].ErrorCount = 0

\* C12 witness: a task that was never cancelled has ended with the error of a
\* failed batch after an earlier batch was inserted.
C12_Witness ==
    \E t \in Tasks :
        /\ task[t].IsEnd /\ ~task[t].IsStop /\ ~cancelReq[t]
        /\ task[t].Error = ErrExec
        /\ task[t].SuccessCount > 0
        /\ task[t].ErrorCount > 0
        /\ task[t].SuccessCount < task[t].DataCount

\* C19: a thread begins the evaluation of a row's column, the flush of a full
\* batch or the final flush of a partial batch only by a step that finds
\* IsStop false: none of them begins in a state where IsStop is already true.
C19_CheckedBeforeRowAndFlush ==
    [][\A r \in Runners :
         ( /\ frame'[r].pc # frame[r].pc
           /\ \/ frame'[r].pc \in {"col_eval", "flush"}
              \/ frame'[r].pc = "final_flush" /\ frame'[r].batch # <<>> )
            => ~task[frame'[r].t].IsStop]_vars

\* C20: a step of a caller inside GetImportTask, StopImportTask or
\* CleanImportTask changes no field of any task other than IsStop, no
\* "_$importCount" entry and nothing in the database.
C20_CallersWriteOnlyIsStop ==
    [][\A c \in Callers :
         (frame'[c] # frame[c]
            /\ frame[c].op \in {"GetImportTask", "StopImportTask", "CleanImportTask"})
            => /\ \A t \in Tasks : [task'[t] EXCEPT !.IsStop = FALSE]
                                    = [task[t] EXCEPT !.IsStop = FALSE]
               /\ counts' = counts
               /\ db' = db]_vars

\* TableUpdateSql has returned, and has returned without an error.
DdlDone == ddl.pc = "done"
DdlOk == DdlDone /\ ddl.err = NoError

\* The positions in sqlList of the operations of kind op requested for entry
\* number entry of the column or index list.
OpsOf(op, entry) ==
    {k \in 1 .. Len(ddl.sqlList) : ddl.sqlList[k].op = op /\ ddl.sqlList[k].entry = entry}

\* The positions in sqlList of the operations of kind op.
OpsOfKind(op) == {k \in 1 .. Len(ddl.sqlList) : ddl.sqlList[k].op = op}

\* The operations of sqlList in order, each with the names it was given.
Operations == [k \in 1 .. Len(ddl.sqlList) |-> <<ddl.sqlList[k].op, ddl.sqlList[k].arg>>]

\* C11: a call of TableUpdateSql whose TargetDatabaseType is non-empty and
\* names no known database type returns an error and no statement.
C11_UnknownTargetIsAnError ==
    ( /\ DdlDone
      /\ ddl.param.TargetDatabaseType # ""
      /\ GetDatabaseType(ddl.param.TargetDatabaseType) = Nil )
        => (ddl.err # NoError /\ ddl.sqlList = <<>>)

\* Every column and index of the request has an old counterpart equal to its
\* new definition and nothing is deleted.
Identical(utp) ==
    /\ \A i \in 1 .. Len(utp.ColumnList) :
        /\ ~utp.ColumnList[i].Deleted
        /\ utp.ColumnList[i].OldColumn = utp.ColumnList[i].Column
    /\ \A i \in 1 .. Len(utp.IndexList) :
        /\ ~utp.IndexList[i].Deleted
        /\ utp.IndexList[i].OldIndex = utp.IndexList[i].Index

\* C13: for identical old and new definitions TableUpdateSql returns an
\* empty list.
C13_IdenticalDefinitionsEmitNothing ==
    (DdlOk /\ Identical(ddl.input)) => ddl.sqlList = <<>>

\* C14 as stated: every column entry with no old counterpart gets exactly one
\* add and neither a drop nor an update.
C14_NewColumnAddedOnce_Original ==
    DdlOk =>
        \A i \in 1 .. Len(ddl.input.ColumnList) :
            ddl.input.ColumnList[i].OldColumn = Nil
                => /\ Cardinality(OpsOf("ColumnAddSql", i)) = 1
                   /\ OpsOf("ColumnDeleteSql", i) = {}
                   /\ OpsOf("ColumnUpdateSql", i) = {}

\* C14: when TableUpdateSql returns without error, every column entry with no
\* old counterpart that is not marked deleted gets exactly one add and
\* neither a drop nor an update; one that is marked deleted gets nothing.
C14_NewColumnAddedOnce ==
    DdlOk =>
        \A i \in 1 .. Len(ddl.input.ColumnList) :
            ddl.input.ColumnList[i].OldColumn = Nil
                => /\ Cardinality(OpsOf("ColumnAddSql", i))
                        = (IF ddl.input.ColumnList[i].Deleted THEN 0 ELSE 1)
                   /\ OpsOf("ColumnDeleteSql", i) = {}
                   /\ OpsOf("ColumnUpdateSql", i) = {}

\* C14 witness: a new column was added next to a kept column that was updated.
C14_Witness ==
    /\ DdlOk
    /\ Len(ddl.input.ColumnList) = MaxColumns
    /\ ddl.input.ColumnList[1].OldColumn # Nil /\ ~ddl.input.ColumnList[1].Deleted
    /\ ddl.input.ColumnList[2].OldColumn = Nil /\ ~ddl.input.ColumnList[2].Deleted
    /\ Cardinality(OpsOf("ColumnAddSql", 2)) = 1
    /\ Cardinality(OpsOf("ColumnUpdateSql", 1)) = 1

\* The primary-key names of the old table and of the new one.
OldPrimaryKeyNames(utp) ==
    {utp.ColumnList[i].OldColumn.ColumnName : i \in
        {j \in 1 .. Len(utp.ColumnList) :
            IF utp.ColumnList[j].OldColumn = Nil THEN FALSE
            ELSE utp.ColumnList[j].OldColumn.PrimaryKey}}
NewPrimaryKeyNames(utp) ==
    {utp.ColumnList[i].Column.ColumnName : i \in
        {j \in 1 .. Len(utp.ColumnList) :
            utp.ColumnList[j].Column.PrimaryKey /\ ~utp.ColumnList[j].Deleted}}

StrictSuperset(utp) ==
    /\ OldPrimaryKeyNames(utp) \subseteq NewPrimaryKeyNames(utp)
    /\ OldPrimaryKeyNames(utp) # NewPrimaryKeyNames(utp)

\* C15 as stated: a strict superset gets one add of the primary key and no drop.
C15_SupersetAddsPrimaryKey_Original ==
    (DdlOk /\ StrictSuperset(ddl.input))
        => /\ Cardinality(OpsOfKind("PrimaryKeyAddSql")) = 1
           /\ OpsOfKind("PrimaryKeyDeleteSql") = {}

\* C15: when the new primary-key names are a strict superset of the old ones,
\* TableUpdateSql requests exactly one add of the primary key; it requests
\* no drop when there was no old primary key, and exactly one drop, before
\* the add, when there was one.
C15_SupersetAddsPrimaryKey ==
    (DdlOk /\ StrictSuperset(ddl.input))
        => /\ Cardinality(OpsOfKind("PrimaryKeyAddSql")) = 1
           /\ Cardinality(OpsOfKind("PrimaryKeyDeleteSql"))
                = (IF OldPrimaryKeyNames(ddl.input) = {} THEN 0 ELSE 1)
           /\ \A d \in OpsOfKind("PrimaryKeyDeleteSql"), a \in OpsOfKind("PrimaryKeyAddSql") :
                d < a

\* C15 witness: a column joined the primary key of a table that had one.
C15_Witness ==
    /\ DdlOk
    /\ StrictSuperset(ddl.input)
    /\ OldPrimaryKeyNames(ddl.input) # {}
    /\ Cardinality(OpsOfKind("PrimaryKeyDeleteSql")) = 1
    /\ Cardinality(OpsOfKind("PrimaryKeyAddSql")) = 1

C17_ShortenedNameFits ==
    ( /\ nm.pc = "returned"
      /\ nm.first.panic = NoError
      /\ Len(nm.name) > nm.size
      /\ Contains(nm.name, "_") )
        => Len(nm.first.res) <= nm.size

\* C18 as stated: a name of at most size characters is returned unchanged,
\* and sortName applied again to a result that fits returns that result.
C18_FittingNameUnchanged_Original ==
    /\ (nm.pc = "returned" /\ Len(nm.name) <= nm.size)
            => (nm.first.panic = NoError /\ nm.first.res = nm.name)
    /\ (nm.pc = "again" /\ Len(nm.first.res) <= nm.size)
            => (nm.second.panic = NoError /\ nm.second.res = nm.first.res)

\* C18: a name that has at most size characters once its surrounding
\* whitespace is trimmed is returned trimmed, so unchanged when it has no
\* surrounding whitespace; and sortName applied again to a result that fits
\* and has no surrounding whitespace returns that result.
C18_FittingNameUnchanged ==
    /\ (nm.pc = "returned" /\ Len(TrimSpace(nm.name)) <= nm.size)
            => (nm.first.panic = NoError /\ nm.first.res = TrimSpace(nm.name))
    /\ (nm.pc = "again" /\ Len(nm.first.res) <= nm.size
            /\ TrimSpace(nm.first.res) = nm.first.res)
            => (nm.second.panic = NoError /\ nm.second.res = nm.first.res)

\* C18 witness: a name with a space before it fitted once trimmed, and the
\* second call returned the trimmed name again.
C18_Witness ==
    /\ nm.pc = "again"
    /\ Len(nm.name) > nm.size
    /\ nm.first.res = TrimSpace(nm.name)
    /\ nm.first.res # nm.name
    /\ Contains(nm.first.res, "_")
    /\ nm.second.res = nm.first.res

\* A flush of task t has failed: only a failed flush adds to ErrorCount
\* (import.go:183,193).
FlushFailed(t) == task[t].ErrorCount > 0

\* Thread r is at a flush that sends rows (import.go:180,191).
AtFlush(r) == frame[r].pc \in {"flush", "final_flush"} /\ Len(frame[r].batch) > 0

\* C21: a flush that fails adds exactly the batch's row count to ErrorCount
\* and leaves SuccessCount alone, a flush that succeeds adds exactly the
\* batch's row count to SuccessCount and leaves ErrorCount alone, and once a
\* flush of the task has failed no further row is generated and no further
\* flush is issued for the task, for the remaining strategies included.
C21_FlushCountsAndHalt ==
    /\ [][\A r \in Runners :
            (AtFlush(r) /\ frame'[r] # frame[r])
                => LET t == frame[r].t
                       n == Len(frame[r].batch)
                   IN IF frame'[r].panic = ErrExec
                      THEN /\ task'[t].ErrorCount = task[t].ErrorCount + n
                           /\ task'[t].SuccessCount = task[t].SuccessCount
                           /\ db'[t] = db[t]
                      ELSE /\ task'[t].SuccessCount = task[t].SuccessCount + n
                           /\ task'[t].ErrorCount = task[t].ErrorCount
                           /\ db'[t] = Append(db[t], frame[r].batch)]_vars
    /\ [][\A t \in Tasks :
            FlushFailed(t)
                => /\ evals'[t] = evals[t]
                   /\ db'[t] = db[t]
                   /\ task'[t].ReadyDataCount = task[t].ReadyDataCount
                   /\ task'[t].SuccessCount = task[t].SuccessCount
                   /\ task'[t].ErrorCount = task[t].ErrorCount]_vars

\* The batch size the task is configured with: BatchNumber, or 10 when
\* BatchNumber is not positive.
ConfiguredBatch(t) ==
    IF cfg[t].BatchNumber > 0 THEN cfg[t].BatchNumber ELSE DefaultBatchNumber

\* The batch ends with the last row its strategy asks for.
EndsStrategy(t, batch) ==
    LET last == batch[Len(batch)]
    IN last.idx = Requested(cfg[t].strategies[last.s]) - 1

RowStarts(r) == frame[r].pc = "col" /\ frame[r].ci = 1

\* C23: when the evaluation of a row starts, the scripting scope holds the
\* index variable of the row and no column value computed for an earlier row.
C23_FreshScopePerRow ==
    \A r \in Runners :
        RowStarts(r) => \A b \in frame[r].scope : b.row = frame[r].idx

\* C29: once IsEnd of a task is true, its Error, EndTime, StartTime, UseTime
\* and its four counters never change again, whatever GetImportTask,
\* StopImportTask and CleanImportTask calls follow, and no batch is inserted
\* for the task afterwards.
C29_EndedTaskIsFrozen ==
    [][\A t \in Tasks :
        task[t].IsEnd
            => /\ task'[t].Error = task[t].Error
               /\ task'[t].EndTime = task[t].EndTime
               /\ task'[t].StartTime = task[t].StartTime
               /\ task'[t].UseTime = task[t].UseTime
               /\ task'[t].DataCount = task[t].DataCount
               /\ task'[t].ReadyDataCount = task[t].ReadyDataCount
               /\ task'[t].SuccessCount = task[t].SuccessCount
               /\ task'[t].ErrorCount = task[t].ErrorCount
               /\ db'[t] = db[t]]_vars

\* C30: in every reachable state SuccessCount + ErrorCount <= ReadyDataCount
\* <= DataCount, and none of the four counters ever decreases.
C30_CounterOrder ==
    /\ [](\A t \in Tasks :
            /\ task[t].SuccessCount + task[t].ErrorCount <= task[t].ReadyDataCount
            /\ task[t].ReadyDataCount <= task[t].DataCount)
    /\ [][\A t \in Tasks :
            /\ task'[t].DataCount >= task[t].DataCount
            /\ task'[t].ReadyDataCount >= task[t].ReadyDataCount
            /\ task'[t].SuccessCount >= task[t].SuccessCount
            /\ task'[t].ErrorCount >= task[t].ErrorCount]_vars

\* The positions in sqlList of the primary-key operations.
PrimaryKeyOps == OpsOfKind("PrimaryKeyDeleteSql") \cup OpsOfKind("PrimaryKeyAddSql")

\* The set of the elements of a sequence.
Range(s) == {s[i] : i \in 1 .. Len(s)}

\* C24: a call of TableUpdateSql that returns without error has requested
\* primary-key operations if and only if the old and the new primary-key name
\* sets of its input differ as sets (so none when both are empty, and none
\* when they hold the same names in another order); with an empty ColumnList
\* it requests no primary-key operation and fails only where an index
\* operation fails.
C24_PrimaryKeyStatementsIffSetsDiffer ==
    /\ DdlOk => ( PrimaryKeyOps # {}
                    <=> OldPrimaryKeyNames(ddl.input) # NewPrimaryKeyNames(ddl.input) )
    /\ (DdlDone /\ ddl.input.ColumnList = <<>>)
            => /\ PrimaryKeyOps = {}
               /\ ddl.err # NoError => ddl.input.IndexList # <<>>

\* C25: the drop of the primary key is requested only if the old primary-key
\* name set is not empty, the add only if the new set is not empty and with
\* exactly the new primary-key names, and a drop comes before the add.
C25_DropThenAddPrimaryKey ==
    /\ OpsOfKind("PrimaryKeyDeleteSql") # {} => OldPrimaryKeyNames(ddl.input) # {}
    /\ \A k \in OpsOfKind("PrimaryKeyAddSql") :
            /\ NewPrimaryKeyNames(ddl.input) # {}
            /\ Range(ddl.sqlList[k].arg) = NewPrimaryKeyNames(ddl.input)
            /\ \A j \in OpsOfKind("PrimaryKeyDeleteSql") : j < k

\* The index operations requested for entry number i of the index list, in
\* the order of sqlList, each with the index name it was given.
IndexOps(i) ==
    LET RECURSIVE From(_)
        From(k) ==
            IF k > Len(ddl.sqlList) THEN <<>>
            ELSE IF /\ ddl.sqlList[k].op \in {"IndexDeleteSql", "IndexAddSql"}
                    /\ ddl.sqlList[k].entry = i
            THEN <<k>> \o From(k + 1)
            ELSE From(k + 1)
    IN From(1)

\* C26: when TableUpdateSql returns without error, every index entry has
\* got, in input order: one drop of the old index name when it is deleted
\* and has an old counterpart; one add when it has no old counterpart and is
\* not deleted; nothing when it has an old counterpart whose name, type,
\* comment and ordered column-name list equal the new ones; and a drop of the
\* old index immediately followed by an add of the new one when any of them
\* differs.
C26_IndexEntries ==
    DdlOk =>
        \A i \in 1 .. Len(ddl.input.IndexList) :
            LET one == ddl.input.IndexList[i]
                ops == IndexOps(i)
                Op(n) == <<ddl.sqlList[ops[n]].op, ddl.sqlList[ops[n]].arg>>
            IN /\ \A j \in 1 .. i - 1 :
                    \A m \in 1 .. Len(IndexOps(j)), n \in 1 .. Len(ops) :
                        IndexOps(j)[m] < ops[n]
               /\ IF one.OldIndex = Nil
                  THEN one.Deleted
                       \/ ( /\ Len(ops) = 1
                            /\ Op(1) = <<"IndexAddSql", <<one.Index.IndexName>> >> )
                  ELSE IF one.Deleted
                  THEN /\ Len(ops) = 1
                       /\ Op(1) = <<"IndexDeleteSql", <<one.OldIndex.IndexName>> >>
                  ELSE IF one.Index = one.OldIndex
                  THEN ops = <<>>
                  ELSE /\ Len(ops) = 2
                       /\ Op(1) = <<"IndexDeleteSql", <<one.OldIndex.IndexName>> >>
                       /\ Op(2) = <<"IndexAddSql", <<one.Index.IndexName>> >>
                       /\ ops[2] = ops[1] + 1

\* The call of DataListSql or TableData has returned.
DataDone == dat.pc = "done"

\* C27: when DataListSql or TableData returns, with or without an error, the
\* field AppendSqlValue of the caller's Param has the value it had when the
\* call was entered.
C27_AppendSqlValueRestored ==
    DataDone => dat.AppendSqlValue = dat.entry

\* C28: every row that TableData returns holds only keys that match, with
\* the case of the letters ignored, the name of a requested column,
\* whatever value is stored under the key.
C28_OnlyRequestedColumns ==
    (DataDone /\ dat.fn = "TableData")
        => \A k \in 1 .. Len(dat.DataList) :
            \A name \in DOMAIN dat.DataList[k] :
                \E j \in 1 .. Len(dat.columnList) :
                    ToLower(dat.columnList[j]) = ToLower(name)

\* C31: the new primary-key names that TableUpdateSql collects, compares with
\* the old ones and passes to the add of the primary key are names of
\* primary-key columns that remain in the new table, never the name of an
\* entry that is only dropped; and when a primary-key column is dropped and
\* its name is no primary-key column of the new table, a call that returns
\* without error has requested primary-key operations.
C31_NewPrimaryKeyHasNoDroppedColumn ==
    /\ ddl.pc # "none" =>
            Range(ddl.newPrimaryKeys) \subseteq NewPrimaryKeyNames(ddl.input)
    /\ \A k \in OpsOfKind("PrimaryKeyAddSql") :
            Range(ddl.sqlList[k].arg) \subseteq NewPrimaryKeyNames(ddl.input)
    /\ DdlOk =>
        \A j \in 1 .. Len(ddl.input.ColumnList) :
            LET one == ddl.input.ColumnList[j]
            IN ( /\ one.Deleted
                 /\ one.OldColumn # Nil
                 /\ (IF one.OldColumn = Nil THEN FALSE ELSE one.OldColumn.PrimaryKey)
                 /\ one.OldColumn.ColumnName \notin NewPrimaryKeyNames(ddl.input) )
                    => PrimaryKeyOps # {}

RECURSIVE NearestRemaining(_, _)
\* The name of the nearest entry before entry number j of the column list
\* that is not marked deleted, or "" when there is none.
NearestRemaining(columnList, j) ==
    IF j <= 1 THEN ""
    ELSE IF ~columnList[j - 1].Deleted THEN columnList[j - 1].Column.ColumnName
    ELSE NearestRemaining(columnList, j - 1)

\* C32: for every add or update of a column that TableUpdateSql requests,
\* the column model handed to the dialect has as its insert-after pointer
\* the name of the nearest preceding entry that is not marked deleted, and
\* so never the name of an entry the same call drops.
C32_AfterPointerSkipsDropped ==
    \A k \in OpsOfKind("ColumnAddSql") \cup OpsOfKind("ColumnUpdateSql") :
        LET j == ddl.sqlList[k].entry
        IN ddl.ColumnList[j].Column.ColumnAfterColumn
                = NearestRemaining(ddl.input.ColumnList, j)

\* The group of an operation of sqlList: 1 column, 2 primary key, 3 index.
GroupOf(op) ==
    IF op \in {"ColumnAddSql", "ColumnUpdateSql", "ColumnDeleteSql"} THEN 1
    ELSE IF op \in {"PrimaryKeyDeleteSql", "PrimaryKeyAddSql"} THEN 2
    ELSE 3

\* C33: in the list TableUpdateSql builds and returns, every column
\* operation comes before every primary-key operation and every primary-key
\* operation before every index operation; the column operations, and the
\* index operations, come in the input order of their entries.
C33_StatementOrder ==
    \A k \in 1 .. Len(ddl.sqlList) : \A l \in k + 1 .. Len(ddl.sqlList) :
        LET a == ddl.sqlList[k]
            b == ddl.sqlList[l]
        IN /\ GroupOf(a.op) <= GroupOf(b.op)
           /\ (GroupOf(a.op) = GroupOf(b.op) /\ GroupOf(a.op) # 2)
                => a.entry <= b.entry

\* A call has returned operations of all three groups, for two index entries.
C33_Witness ==
    /\ DdlOk
    /\ \E k \in 1 .. Len(ddl.sqlList) : GroupOf(ddl.sqlList[k].op) = 1
    /\ PrimaryKeyOps # {}
    /\ IndexOps(1) # <<>>
    /\ IndexOps(2) # <<>>

\* C34: for every name and every size of at least 1, sortName returns a
\* result and does not fault: no division by zero and no slice out of range.
C34_SortNameIsTotal ==
    (nm.pc = "returned" /\ nm.size >= 1) => nm.first.panic = NoError

====
